---- MODULE Spec2Model ----
(***************************************************************************)
(* A model of sqlrat's session engine: the mutation ledger                 *)
(* (editor.ChangeTracker), the Results pane that stages into it            *)
(* (ui.ResultsModel), and the coordinator (app.Model) that dispatches the  *)
(* commit operation and merges its result message; the database handle     *)
(* (db.DB) the operations run on; and the editor's text functions          *)
(* FormatSQL and HighlightSQL.                                             *)
(*                                                                         *)
(* Text values are TLA+ strings.  A Go map[string]string is a function     *)
(* from a finite set of column names to strings; the empty map is          *)
(* EmptyMap.  Go slices are sequences; Go's 0-based indices are kept in    *)
(* the data (UndoEntry.Index) and shifted by one where a sequence is       *)
(* indexed.                                                                 *)
(***************************************************************************)
EXTENDS Integers, Sequences, FiniteSets, TLC

VARIABLES
    ct,       \* the ledger: *editor.ChangeTracker shared by coordinator and pane
    lastOp,   \* history: the operation applied last and the pending count
              \* before it
    sql,      \* the (queries, allArgs) pair the last GenerateSQL call returned
    results,            \* Model.results, the Results pane
    activePane,         \* Model.activePane
    lastTable,          \* Model.lastTable
    confirmClearEdits,  \* Model.confirmClearEdits
    panicked,           \* TRUE once a Go runtime panic has ended the process
    cmds,               \* the tea.Cmd goroutines in flight, and their result
                        \* messages not yet handled by Update
    db,                 \* the transactions the database has committed, in order
    folds,              \* history: per locally inserted row, how many times a
                        \* commit appended it to the ledger
    sidebar,            \* Model.sidebar: focus, input modes, active database
    editor,             \* Model.editor: focus and the ghost completion
    scriptsModal,       \* Model.scriptsModal: whether the modal is visible
    conn                \* Model.db: the database the handle records and the
                        \* connection it holds

sessionVars ==
    <<results, activePane, lastTable, confirmClearEdits, panicked, cmds, db, folds,
      sidebar, editor, scriptsModal, conn>>

vars == <<ct, lastOp, sql, results, activePane, lastTable, confirmClearEdits,
          panicked, cmds, db, folds, sidebar, editor, scriptsModal, conn>>

\* The NULL sentinel of the string-typed value model.
NULL == "<NULL>"

\* An empty Go map.
EmptyMap == [k \in {} |-> ""]

(***************************************************************************)
(* Bounds of the model.                                                    *)
(***************************************************************************)
\* Largest number of pending entries (edits + deletes + inserts) staged at once.
MaxPending == 3

\* Largest undo stack: UnstageDelete can leave undo entries behind, so the stack
\* is not bounded by the number of pending entries.
MaxUndo == 3

(***************************************************************************)
(* Helpers for Go slices and maps.                                         *)
(***************************************************************************)
SetMin(S) == CHOOSE x \in S : \A y \in S : x <= y

SetMax(S) == CHOOSE x \in S : \A y \in S : x >= y

\* append(s[:i], s[i+1:]...) for the 1-based position i.
RemoveAt(s, i) == SubSeq(s, 1, i - 1) \o SubSeq(s, i + 1, Len(s))

\* m[k] on a Go map: the zero value "" when k is absent.
MapGet(m, k) == IF k \in DOMAIN m THEN m[k] ELSE ""

(***************************************************************************)
(* editor.ChangeTracker                                                    *)
(*                                                                         *)
(* Every staged entry and every undo entry carries a history field uid     *)
(* that the code does not have: the staging action gives the entry and the *)
(* undo entry it pushes the same fresh uid.  No operation reads it; the    *)
(* properties use it to say which entry an undo entry was pushed for.      *)
(* Uids grow with staging time; Renumbered closes the gaps that removals   *)
(* leave, keeping their order, so that the ledgers of the model stay       *)
(* finitely many.                                                          *)
(***************************************************************************)
NewChangeTracker == [Edits |-> <<>>, Deletes |-> <<>>, Inserts |-> <<>>, undoStack |-> <<>>]

UidsOf(s) == {s[i].uid : i \in 1..Len(s)}

EntryUids(t) == UidsOf(t.Edits) \cup UidsOf(t.Deletes) \cup UidsOf(t.Inserts)

UsedUids(t) == EntryUids(t) \cup UidsOf(t.undoStack)

\* A uid above every uid the ledger holds.
FreshUid(t) == IF UsedUids(t) = {} THEN 0 ELSE SetMax(UsedUids(t)) + 1

\* The ledger with its uids renamed to 0, 1, 2, ... in their order.
Renumbered(t) ==
    LET rank(u) == Cardinality({v \in UsedUids(t) : v < u})
        ren(s) == [i \in 1..Len(s) |-> [s[i] EXCEPT !.uid = rank(@)]]
    IN  [Edits |-> ren(t.Edits), Deletes |-> ren(t.Deletes),
         Inserts |-> ren(t.Inserts), undoStack |-> ren(t.undoStack)]

\* The entries as stored: the staged value plus the history uid.
EditEntry(edit, u) ==
    [TableName |-> edit.TableName, RowPKValues |-> edit.RowPKValues,
     ColumnName |-> edit.ColumnName, OldValue |-> edit.OldValue,
     NewValue |-> edit.NewValue, uid |-> u]

DeleteEntry(del, u) ==
    [TableName |-> del.TableName, RowPKValues |-> del.RowPKValues, uid |-> u]

InsertEntry(ins, u) ==
    [TableName |-> ins.TableName, Values |-> ins.Values, uid |-> u]

pkMatch(a, b) ==
    /\ Cardinality(DOMAIN a) = Cardinality(DOMAIN b)
    /\ \A k \in DOMAIN a : MapGet(b, k) = a[k]

\* The positions of the edits StageEdit and GetCellEdit treat as the same cell.
EditHits(t, tableName, pkVals, columnName) ==
    {i \in 1..Len(t.Edits) :
        /\ t.Edits[i].TableName = tableName
        /\ t.Edits[i].ColumnName = columnName
        /\ pkMatch(t.Edits[i].RowPKValues, pkVals)}

\* The positions of the deletes UnstageDelete and IsRowDeleted treat as the row.
DeleteHits(t, tableName, pkVals) ==
    {i \in 1..Len(t.Deletes) :
        /\ t.Deletes[i].TableName = tableName
        /\ pkMatch(t.Deletes[i].RowPKValues, pkVals)}

StageEditAlwaysAppend(t, edit) ==
    LET u == FreshUid(t)
    IN  [t EXCEPT
            !.Edits = Append(@, EditEntry(edit, u)),
            !.undoStack = Append(@, [Type |-> "OpEdit", Index |-> Len(t.Edits), uid |-> u])]

StageEditForgetsUndo(t, edit) ==
    LET hits == EditHits(t, edit.TableName, edit.RowPKValues, edit.ColumnName)
    IN  IF hits # {}
        THEN [t EXCEPT !.Edits[SetMin(hits)].NewValue = edit.NewValue]
        ELSE [t EXCEPT !.Edits = Append(@, EditEntry(edit, FreshUid(t)))]

StageEdit(t, edit) ==
    LET hits == EditHits(t, edit.TableName, edit.RowPKValues, edit.ColumnName)
        u == FreshUid(t)
    IN  IF hits # {}
        THEN [t EXCEPT !.Edits[SetMin(hits)].NewValue = edit.NewValue]
        ELSE [t EXCEPT
                !.Edits = Append(@, EditEntry(edit, u)),
                !.undoStack = Append(@, [Type |-> "OpEdit", Index |-> Len(t.Edits), uid |-> u])]

StageDelete(t, del) ==
    LET u == FreshUid(t)
    IN  [t EXCEPT
            !.Deletes = Append(@, DeleteEntry(del, u)),
            !.undoStack = Append(@, [Type |-> "OpDelete", Index |-> Len(t.Deletes), uid |-> u])]

UnstageDeleteUndoOnly(t, tableName, pkVals) ==
    LET hits == DeleteHits(t, tableName, pkVals)
    IN  IF hits = {}
        THEN t
        ELSE LET js == {j \in 1..Len(t.undoStack) :
                           /\ t.undoStack[j].Type = "OpDelete"
                           /\ t.undoStack[j].Index = SetMin(hits) - 1}
             IN  [t EXCEPT !.undoStack = IF js = {} THEN @ ELSE RemoveAt(@, SetMax(js))]

UnstageDelete(t, tableName, pkVals) ==
    LET hits == DeleteHits(t, tableName, pkVals)
    IN  IF hits = {}
        THEN t
        ELSE LET i == SetMin(hits)
                 js == {j \in 1..Len(t.undoStack) :
                           /\ t.undoStack[j].Type = "OpDelete"
                           /\ t.undoStack[j].Index = i - 1}
             IN  [t EXCEPT
                     !.Deletes = RemoveAt(@, i),
                     !.undoStack = IF js = {} THEN @ ELSE RemoveAt(@, SetMax(js))]

IsRowDeleted(t, tableName, pkVals) == DeleteHits(t, tableName, pkVals) # {}

StageInsert(t, ins) ==
    LET u == FreshUid(t)
    IN  [t EXCEPT
            !.Inserts = Append(@, InsertEntry(ins, u)),
            !.undoStack = Append(@, [Type |-> "OpInsert", Index |-> Len(t.Inserts), uid |-> u])]

UndoPopOnly(t) ==
    IF t.undoStack = <<>> THEN t
    ELSE [t EXCEPT !.undoStack = SubSeq(@, 1, Len(@) - 1)]

Undo(t) ==
    IF t.undoStack = <<>>
    THEN t
    ELSE LET last == t.undoStack[Len(t.undoStack)]
             popped == [t EXCEPT !.undoStack = SubSeq(@, 1, Len(@) - 1)]
         IN  CASE last.Type = "OpEdit" ->
                    IF last.Index < Len(t.Edits)
                    THEN [popped EXCEPT !.Edits = RemoveAt(@, last.Index + 1)]
                    ELSE popped
               [] last.Type = "OpDelete" ->
                    IF last.Index < Len(t.Deletes)
                    THEN [popped EXCEPT !.Deletes = RemoveAt(@, last.Index + 1)]
                    ELSE popped
               [] last.Type = "OpInsert" ->
                    IF last.Index < Len(t.Inserts)
                    THEN [popped EXCEPT !.Inserts = RemoveAt(@, last.Index + 1)]
                    ELSE popped

HasChanges(t) == Len(t.Edits) > 0 \/ Len(t.Deletes) > 0 \/ Len(t.Inserts) > 0

PendingCount(t) == Len(t.Edits) + Len(t.Deletes) + Len(t.Inserts)

\* Clear that leaves the undo stack.
ClearKeepsUndo(t) == [t EXCEPT !.Edits = <<>>, !.Deletes = <<>>, !.Inserts = <<>>]

Clear(t) == [Edits |-> <<>>, Deletes |-> <<>>, Inserts |-> <<>>, undoStack |-> <<>>]

\* [found, value] for the (value, bool) pair of the code.
GetCellEdit(t, tableName, pkVals, columnName) ==
    LET hits == EditHits(t, tableName, pkVals, columnName)
    IN  IF hits # {}
        THEN [found |-> TRUE, value |-> t.Edits[SetMin(hits)].NewValue]
        ELSE [found |-> FALSE, value |-> ""]

(***************************************************************************)
(* GenerateSQL.  A statement's text is kept as its parts: kind, table, the *)
(* column list, one placeholder per column (0 for a literal NULL, n for    *)
(* $n) and the WHERE predicates (ph 0 for IS NULL, n for = $n).  Go visits *)
(* a map in an unspecified order, chosen anew by every range statement:    *)
(* ords gives, for the entry at each position of inserts ++ edits ++       *)
(* deletes, the order in which its map is visited.                         *)
(***************************************************************************)
Cols == {"a", "b"}

ColOrders == {o \in [1..Cardinality(Cols) -> Cols] : \A i, j \in DOMAIN o : i # j => o[i] # o[j]}

OrdsFor(t) == [1..PendingCount(t) -> ColOrders]

\* The keys of map m in the order a range statement visits them under ord.
RangeKeys(m, ord) == SelectSeq(ord, LAMBDA k : k \in DOMAIN m)

\* Placeholders numbered by the position of the key, NULL keys counted.
PlaceholdersByPosition(m, keys, first) ==
    [j \in 1..Len(keys) |-> IF m[keys[j]] = NULL THEN 0 ELSE first + j - 1]

\* The placeholder of each visited key: 0 for the NULL sentinel, else the next $n from first.
Placeholders(m, keys, first) ==
    [j \in 1..Len(keys) |->
        IF m[keys[j]] = NULL
        THEN 0
        ELSE first + Cardinality({i \in 1..j : m[keys[i]] # NULL}) - 1]

\* The bound parameters: the values that are not the NULL sentinel, in visiting order.
BoundArgs(m, keys) ==
    LET bound == SelectSeq(keys, LAMBDA k : m[k] # NULL)
    IN  [j \in 1..Len(bound) |-> m[bound[j]]]

WherePartsAllBound(pk, keys, first) ==
    [j \in 1..Len(keys) |-> [col |-> keys[j], ph |-> first + j - 1]]

WhereParts(pk, keys, first) ==
    LET phs == Placeholders(pk, keys, first)
    IN  [j \in 1..Len(keys) |-> [col |-> keys[j], ph |-> phs[j]]]

InsertSQL(ins, ord) ==
    LET keys == RangeKeys(ins.Values, ord)
    IN  [text |-> [kind |-> "INSERT", table |-> ins.TableName, cols |-> keys,
                   phs |-> Placeholders(ins.Values, keys, 1), where |-> <<>>],
         args |-> BoundArgs(ins.Values, keys)]

UpdateSQL(edit, ord) ==
    LET keys == RangeKeys(edit.RowPKValues, ord)
        setArgs == IF edit.NewValue = NULL THEN <<>> ELSE <<edit.NewValue>>
    IN  [text |-> [kind |-> "UPDATE", table |-> edit.TableName, cols |-> <<edit.ColumnName>>,
                   phs |-> IF edit.NewValue = NULL THEN <<0>> ELSE <<1>>,
                   where |-> WhereParts(edit.RowPKValues, keys, Len(setArgs) + 1)],
         args |-> setArgs \o BoundArgs(edit.RowPKValues, keys)]

DeleteSQL(del, ord) ==
    LET keys == RangeKeys(del.RowPKValues, ord)
    IN  [text |-> [kind |-> "DELETE", table |-> del.TableName, cols |-> <<>>, phs |-> <<>>,
                   where |-> WhereParts(del.RowPKValues, keys, 1)],
         args |-> BoundArgs(del.RowPKValues, keys)]

GenerateSQLDeletesFirst(t, ords) ==
    LET ni == Len(t.Inserts)
        ne == Len(t.Edits)
        insQ == [j \in 1..ni |-> InsertSQL(t.Inserts[j], ords[j])]
        updQ == [j \in 1..ne |-> UpdateSQL(t.Edits[j], ords[ni + j])]
        delQ == [j \in 1..Len(t.Deletes) |-> DeleteSQL(t.Deletes[j], ords[ni + ne + j])]
        all == delQ \o insQ \o updQ
    IN  [queries |-> [j \in 1..Len(all) |-> all[j].text],
         allArgs |-> [j \in 1..Len(all) |-> all[j].args]]

GenerateSQL(t, ords) ==
    LET ni == Len(t.Inserts)
        ne == Len(t.Edits)
        kept == SelectSeq([i \in 1..ni |-> i], LAMBDA i : DOMAIN t.Inserts[i].Values # {})
        insQ == [j \in 1..Len(kept) |-> InsertSQL(t.Inserts[kept[j]], ords[kept[j]])]
        updQ == [j \in 1..ne |-> UpdateSQL(t.Edits[j], ords[ni + j])]
        delQ == [j \in 1..Len(t.Deletes) |-> DeleteSQL(t.Deletes[j], ords[ni + ne + j])]
        all == insQ \o updQ \o delQ
    IN  [queries |-> [j \in 1..Len(all) |-> all[j].text],
         allArgs |-> [j \in 1..Len(all) |-> all[j].args]]

NoSQL == [queries |-> <<>>, allArgs |-> <<>>]

(***************************************************************************)
(* ui.ResultsModel                                                         *)
(*                                                                         *)
(* rows holds the Go [][]string by value.  A locally inserted row is a Go  *)
(* slice that the pane writes in place, so copies of the pane share it;    *)
(* the history field rowIds gives each such row an identity (0 for a row   *)
(* that came from the database) so that a write can be carried to every    *)
(* copy.  The fields that only the view reads (sizes, scroll offsets,      *)
(* messages) are left out.                                                 *)
(***************************************************************************)
SidebarPane == "SidebarPane"

EditorPane == "EditorPane"

ResultsPane == "ResultsPane"

Range(s) == {s[i] : i \in 1..Len(s)}

NewResultsModel ==
    [columns |-> <<>>, rows |-> <<>>, rowIds |-> <<>>, cursorRow |-> 0, cursorCol |-> 0,
     focused |-> FALSE, editing |-> FALSE, editValue |-> "", tableName |-> "",
     primaryKeys |-> <<>>, insertedRows |-> 0,
     previewing |-> FALSE, previewEditing |-> FALSE, previewValue |-> "",
     searching |-> FALSE, searchHit |-> -1]

\* A SetFocused that never takes the focus away.
SetFocusedOnly(r, f) == [r EXCEPT !.focused = r.focused \/ f]

SetFocused(r, f) == [r EXCEPT !.focused = f]

SetData(r, columns, rows) ==
    [r EXCEPT !.columns = columns, !.rows = rows,
              !.rowIds = [i \in 1..Len(rows) |-> 0],
              !.cursorRow = 0, !.cursorCol = 0,
              !.editing = FALSE, !.editValue = "", !.insertedRows = 0]

\* A SetTableContext that leaves the primary keys as they were.
SetTableContextKeepsKeys(r, tableName, pks) == [r EXCEPT !.tableName = tableName]

SetTableContext(r, tableName, pks) ==
    [r EXCEPT !.tableName = tableName, !.primaryKeys = pks]

SetError(r) == [r EXCEPT !.columns = <<>>, !.rows = <<>>, !.rowIds = <<>>]

\* ResultsModel.Clear: the pane back to empty; focus, the preview and the
\* search stay.
ResultsClear(r) ==
    [NewResultsModel EXCEPT !.focused = r.focused, !.previewing = r.previewing,
                            !.previewEditing = r.previewEditing,
                            !.searching = r.searching, !.searchHit = r.searchHit,
                            !.previewValue = r.previewValue]

\* m.rows[:len(m.rows)-m.insertedRows] panics when the bound is negative.
ClearInsertedRowsPanics(r) == r.insertedRows > 0 /\ Len(r.rows) - r.insertedRows < 0

ClearInsertedRows(r) ==
    IF r.insertedRows > 0
    THEN LET n == Len(r.rows) - r.insertedRows
             c == IF r.cursorRow >= n /\ n > 0 THEN n - 1 ELSE r.cursorRow
         IN  [r EXCEPT !.rows = SubSeq(r.rows, 1, n), !.rowIds = SubSeq(r.rowIds, 1, n),
                       !.insertedRows = 0, !.cursorRow = IF c < 0 THEN 0 ELSE c]
    ELSE r

isInsertedRow(r, rowIdx) == rowIdx >= Len(r.rows) - r.insertedRows /\ r.insertedRows > 0

\* The last column named pk that the row has a cell for, as the inner loop
\* leaves it in vals[pk].
PkColumn(r, rowIdx, pk) ==
    {i \in 1..Len(r.columns) :
        r.columns[i] = pk /\ rowIdx < Len(r.rows) /\ i <= Len(r.rows[rowIdx + 1])}

pkValues(r, rowIdx) ==
    [pk \in {k \in Range(r.primaryKeys) : PkColumn(r, rowIdx, k) # {}} |->
        r.rows[rowIdx + 1][SetMax(PkColumn(r, rowIdx, pk))]]

displayValue(r, t, rowIdx, colIdx) ==
    IF rowIdx >= Len(r.rows) \/ colIdx >= Len(r.rows[rowIdx + 1])
    THEN ""
    ELSE LET cell == r.rows[rowIdx + 1][colIdx + 1]
             g == GetCellEdit(t, r.tableName, pkValues(r, rowIdx), r.columns[colIdx + 1])
         IN  IF ~isInsertedRow(r, rowIdx) /\ Len(r.primaryKeys) > 0 /\ g.found
             THEN g.value
             ELSE cell

\* The value the edit buffer starts from: NULL is shown as the empty text.
EditBuffer(r, t, rowIdx, colIdx) ==
    LET val == displayValue(r, t, rowIdx, colIdx)
    IN  IF val = NULL THEN "" ELSE val

\* The loop starts at len(m.rows) - m.insertedRows; m.rows[i] is indexed with it
\* inside the loop over m.columns, so only when there is a column.
GetInsertedRowValuesPanics(r) ==
    r.insertedRows # 0 /\ Len(r.rows) - r.insertedRows < 0 /\ Len(r.columns) > 0

RowValues(r, i) ==
    [col \in {r.columns[j] : j \in 1..SetMin({Len(r.columns), Len(r.rows[i])})} |->
        LET j == SetMax({x \in 1..SetMin({Len(r.columns), Len(r.rows[i])}) : r.columns[x] = col})
            val == r.rows[i][j]
        IN  IF val = "" THEN NULL ELSE val]

\* The positions in rows of the locally inserted rows that yield an insert.
\* Without columns every vals map stays empty and no row yields one.
InsertedPositions(r) ==
    IF r.insertedRows = 0 \/ Len(r.columns) = 0
    THEN <<>>
    ELSE LET startIdx == Len(r.rows) - r.insertedRows
             F[i \in startIdx + 1..Len(r.rows) + 1] ==
                 IF i > Len(r.rows) THEN <<>>
                 ELSE IF DOMAIN RowValues(r, i) # {} THEN <<i>> \o F[i + 1] ELSE F[i + 1]
         IN  F[startIdx + 1]

GetInsertedRowValues(r) ==
    [k \in 1..Len(InsertedPositions(r)) |->
        [TableName |-> r.tableName, Values |-> RowValues(r, InsertedPositions(r)[k])]]

\* History: the identities of the rows GetInsertedRowValues built inserts from.
InsertedRowIds(r) ==
    [k \in 1..Len(InsertedPositions(r)) |-> r.rowIds[InsertedPositions(r)[k]]]

\* m.rows[m.cursorRow][m.cursorCol] and m.columns[m.cursorCol] index out of range.
commitCurrentCellPanics(r) ==
    \/ r.cursorRow >= Len(r.rows)
    \/ r.cursorCol >= Len(r.rows[r.cursorRow + 1])
    \/ ~isInsertedRow(r, r.cursorRow) /\ r.cursorCol >= Len(r.columns)

commitCurrentCell(r, t) ==
    LET newValue == IF r.editValue = "" THEN NULL ELSE r.editValue
    IN  IF isInsertedRow(r, r.cursorRow)
        THEN [r |-> [r EXCEPT !.rows[r.cursorRow + 1][r.cursorCol + 1] = newValue], t |-> t]
        ELSE [r |-> r,
              t |-> StageEdit(t, [TableName |-> r.tableName,
                                  RowPKValues |-> pkValues(r, r.cursorRow),
                                  ColumnName |-> r.columns[r.cursorCol + 1],
                                  OldValue |-> r.rows[r.cursorRow + 1][r.cursorCol + 1],
                                  NewValue |-> newValue])]

moveToEditCell(r, t, col) ==
    [r EXCEPT !.cursorCol = col, !.editValue = EditBuffer(r, t, r.cursorRow, col)]

\* Keys that reach the pane while a cell is being edited; "z" stands for any
\* key of one character.
EditKeys == {"enter", "tab", "shift+tab", "esc", "z"}

updateEditModePanics(r, key) ==
    key \in {"enter", "tab", "shift+tab"} /\ commitCurrentCellPanics(r)

updateEditMode(r, t, key) ==
    LET c == commitCurrentCell(r, t)
    IN  CASE key \in {"enter", "tab"} ->
                IF c.r.cursorCol < Len(c.r.columns) - 1
                THEN [r |-> moveToEditCell(c.r, c.t, c.r.cursorCol + 1), t |-> c.t]
                ELSE [r |-> [c.r EXCEPT !.editing = FALSE], t |-> c.t]
          [] key = "shift+tab" ->
                IF c.r.cursorCol > 0
                THEN [r |-> moveToEditCell(c.r, c.t, c.r.cursorCol - 1), t |-> c.t]
                ELSE c
          [] key = "esc" -> [r |-> [r EXCEPT !.editing = FALSE, !.editValue = ""], t |-> t]
          [] key = "backspace" ->
                IF Len(r.editValue) > 0
                THEN [r |-> [r EXCEPT !.editValue = SubSeq(r.editValue, 1, Len(r.editValue) - 1)],
                      t |-> t]
                ELSE [r |-> r, t |-> t]
          [] OTHER -> [r |-> [r EXCEPT !.editValue = r.editValue \o key], t |-> t]

\* case "d" with the toggle replaced by an unconditional StageDelete.
NavDeleteAlwaysStage(r, t) ==
    IF Len(r.primaryKeys) = 0
    THEN t
    ELSE IF Len(r.rows) > 0 /\ ~isInsertedRow(r, r.cursorRow)
         THEN StageDelete(t, [TableName |-> r.tableName,
                              RowPKValues |-> pkValues(r, r.cursorRow)])
         ELSE t

\* case "d" of updateNavMode: the ledger after the key.
NavDelete(r, t) ==
    IF Len(r.primaryKeys) = 0
    THEN t
    ELSE IF Len(r.rows) > 0 /\ ~isInsertedRow(r, r.cursorRow)
         THEN LET pkVals == pkValues(r, r.cursorRow)
              IN  IF IsRowDeleted(t, r.tableName, pkVals)
                  THEN UnstageDelete(t, r.tableName, pkVals)
                  ELSE StageDelete(t, [TableName |-> r.tableName, RowPKValues |-> pkVals])
         ELSE t

\* case "a" of updateNavMode; rid is the identity the history gives the new row.
NavAppend(r, rid) ==
    IF Len(r.primaryKeys) = 0 /\ r.tableName # ""
    THEN r
    ELSE IF Len(r.columns) > 0
         THEN [r EXCEPT !.rows = Append(r.rows, [j \in 1..Len(r.columns) |-> ""]),
                        !.rowIds = Append(r.rowIds, rid),
                        !.insertedRows = r.insertedRows + 1,
                        !.cursorRow = Len(r.rows),
                        !.cursorCol = 0,
                        !.editing = TRUE,
                        !.editValue = ""]
         ELSE r

\* case "v" of updateNavMode: open the preview of the cell under the cursor;
\* previewValue is the text of previewTextarea.
NavPreview(r, t) ==
    IF Len(r.rows) > 0 /\ Len(r.columns) > 0
    THEN [r EXCEPT !.previewing = TRUE, !.previewEditing = FALSE,
                   !.previewValue = EditBuffer(r, t, r.cursorRow, r.cursorCol)]
    ELSE r

\* Keys that reach the pane in navigation mode.
NavKeys == {"up", "down", "left", "right", "e", "d", "a", "ctrl+z"}

updateNavMode(r, t, key, rid) ==
    IF Len(r.rows) = 0 /\ key # "a"
    THEN [r |-> r, t |-> t]
    ELSE CASE key = "up" ->
                [r |-> IF r.cursorRow > 0 THEN [r EXCEPT !.cursorRow = r.cursorRow - 1] ELSE r,
                 t |-> t]
           [] key = "down" ->
                [r |-> IF r.cursorRow < Len(r.rows) - 1
                       THEN [r EXCEPT !.cursorRow = r.cursorRow + 1] ELSE r,
                 t |-> t]
           [] key = "left" ->
                [r |-> IF r.cursorCol > 0 THEN [r EXCEPT !.cursorCol = r.cursorCol - 1] ELSE r,
                 t |-> t]
           [] key = "right" ->
                [r |-> IF r.cursorCol < Len(r.columns) - 1
                       THEN [r EXCEPT !.cursorCol = r.cursorCol + 1] ELSE r,
                 t |-> t]
           [] key = "e" ->
                [r |-> IF Len(r.primaryKeys) = 0 /\ ~isInsertedRow(r, r.cursorRow)
                       THEN r
                       ELSE [r EXCEPT !.editing = TRUE,
                                      !.editValue = EditBuffer(r, t, r.cursorRow, r.cursorCol)],
                 t |-> t]
           [] key = "d" -> [r |-> r, t |-> NavDelete(r, t)]
           [] key = "a" -> [r |-> NavAppend(r, rid), t |-> t]
           [] key = "ctrl+z" -> [r |-> r, t |-> Undo(t)]
           [] key = "v" -> [r |-> NavPreview(r, t), t |-> t]
           [] key = "/" -> [r |-> [r EXCEPT !.searching = TRUE, !.searchHit = -1], t |-> t]
           [] OTHER -> [r |-> r, t |-> t]

\* Keys of the row search; "z" stands for any key of one character.
SearchKeys == {"esc", "enter", "z"}

\* updateSearchMode; hit is the first row that matches the query after the
\* key (-1 for none), as applyRowFilter finds it.
updateSearchMode(r, key, hit) ==
    CASE key = "esc" -> [r EXCEPT !.searching = FALSE, !.searchHit = -1]
      [] key = "enter" ->
            [r EXCEPT !.searching = FALSE,
                      !.cursorRow = IF r.searchHit >= 0 THEN r.searchHit ELSE @]
      [] OTHER ->
            [r EXCEPT !.searchHit = hit, !.cursorRow = IF hit >= 0 THEN hit ELSE @]

\* Keys of the cell preview; "z" stands for any key the text area takes as a
\* character.
PreviewKeys == {"esc", "v", "e", "ctrl+s", "z"}

updatePreviewModePanics(r, key) ==
    r.previewEditing /\ key = "ctrl+s" /\ commitCurrentCellPanics(r)

\* An updatePreviewMode whose ctrl+s closes the preview and leaves
\* previewEditing set.
updatePreviewModeKeepsEditing(r, t, key) ==
    IF r.previewEditing
    THEN CASE key = "esc" -> [r |-> [r EXCEPT !.previewEditing = FALSE], t |-> t]
           [] key = "ctrl+s" ->
                LET c == commitCurrentCell([r EXCEPT !.editValue = r.previewValue], t)
                IN  [r |-> [c.r EXCEPT !.previewing = FALSE], t |-> c.t]
           [] OTHER -> [r |-> [r EXCEPT !.previewValue = r.previewValue \o "z"], t |-> t]
    ELSE CASE key \in {"esc", "v"} -> [r |-> [r EXCEPT !.previewing = FALSE], t |-> t]
           [] key = "e" ->
                [r |-> IF Len(r.primaryKeys) = 0 /\ ~isInsertedRow(r, r.cursorRow)
                       THEN r
                       ELSE [r EXCEPT !.previewEditing = TRUE],
                 t |-> t]
           [] OTHER -> [r |-> r, t |-> t]

updatePreviewMode(r, t, key) ==
    IF r.previewEditing
    THEN CASE key = "esc" -> [r |-> [r EXCEPT !.previewEditing = FALSE], t |-> t]
           [] key = "ctrl+s" ->
                LET c == commitCurrentCell([r EXCEPT !.editValue = r.previewValue], t)
                IN  [r |-> [c.r EXCEPT !.previewing = FALSE, !.previewEditing = FALSE],
                     t |-> c.t]
           [] OTHER -> [r |-> [r EXCEPT !.previewValue = r.previewValue \o "z"], t |-> t]
    ELSE CASE key \in {"esc", "v"} -> [r |-> [r EXCEPT !.previewing = FALSE], t |-> t]
           [] key = "e" ->
                [r |-> IF Len(r.primaryKeys) = 0 /\ ~isInsertedRow(r, r.cursorRow)
                       THEN r
                       ELSE [r EXCEPT !.previewEditing = TRUE],
                 t |-> t]
           [] OTHER -> [r |-> r, t |-> t]

\* editValue is read only while a cell is being edited, and every way into edit
\* mode assigns it: the model forgets it outside edit mode.
Settled(r) ==
    [r EXCEPT !.editValue = IF r.editing THEN r.editValue ELSE "",
              !.previewValue = IF r.previewing THEN r.previewValue ELSE ""]

\* ResultsModel.Update on a key: nothing unless focused, then by mode.
ResultsUpdatePanics(r, key) ==
    /\ r.focused
    /\ IF r.previewing THEN updatePreviewModePanics(r, key)
       ELSE ~r.searching /\ r.editing /\ updateEditModePanics(r, key)

ResultsUpdate(r, t, key, rid) ==
    IF ~r.focused
    THEN [r |-> r, t |-> t]
    ELSE IF r.previewing THEN updatePreviewMode(r, t, key)
    ELSE IF r.searching THEN [r |-> updateSearchMode(r, key, -1), t |-> t]
    ELSE IF r.editing THEN updateEditMode(r, t, key) ELSE updateNavMode(r, t, key, rid)

(***************************************************************************)
(* The database behind db.DB: two tables, one with the primary key a and   *)
(* one without a primary key.  A read may fail; a transaction is atomic,   *)
(* as the driver's interface promises: its statements take effect when     *)
(* tx.Commit succeeds and not otherwise.                                   *)
(***************************************************************************)
TableNames == {"t"}

\* The tables of a database that also has v, a table without primary key.
AllTableNames == TableNames \cup {"v"}

\* The databases the sidebar lists: the one the session starts on and the
\* administrative one.
DatabaseNames == {"db", "postgres"}

GetPrimaryKeys(tableName) == IF tableName = "t" THEN <<"a">> ELSE <<>>

TableColumns(tableName) == <<"a">>

TableRows(tableName) ==
    IF tableName = "t" THEN << <<"1">>, <<NULL>> >> ELSE << <<"1">> >>

(***************************************************************************)
(* Bounds of the session.                                                  *)
(***************************************************************************)
\* Largest ledger, and largest undo stack, that a session builds.
MaxStaged == 2

\* Commands in flight when the user starts another one.
MaxInFlight == 1

\* Times the history counts one local row being appended to the ledger.
MaxFolds == 2

\* Rows the user adds locally in a run.
MaxLocalRows == 1

\* Longest text in the cell edit buffer that a key is appended to.
MaxEditLen == 1

(***************************************************************************)
(* tea.Cmd goroutines.  A command is dispatched by Update, runs off the    *)
(* event loop step by step, and ends at pc = "done" holding its result     *)
(* message, which a later Update call handles.  The closures of            *)
(* commitChanges capture the copy of Model that Update worked on: snap is  *)
(* what that copy's results field holds, and shared says whether its rows  *)
(* slice still has the backing array of the live pane's.                   *)
(***************************************************************************)
Snapshot(r) ==
    [columns |-> r.columns, rows |-> r.rows, rowIds |-> r.rowIds,
     insertedRows |-> r.insertedRows, tableName |-> r.tableName]

NoSnapshot == Snapshot(NewResultsModel)

commitChanges(id, r) ==
    [id |-> id, kind |-> "commitChanges", pc |-> "run", snap |-> Snapshot(r), shared |-> TRUE,
     queries |-> <<>>, allArgs |-> <<>>, i |-> 0, tx |-> <<>>, committed |-> FALSE,
     err |-> "", count |-> 0, staged |-> 0]

\* servedBy is history: the database the SELECT of the command read its rows
\* from ("" before it has).
loadTable(id, tableName) ==
    [id |-> id, kind |-> "loadTable", pc |-> "run", step |-> 0, err |-> "", sub |-> "",
     tableName |-> tableName, servedBy |-> ""]

reconnect(id) ==
    [id |-> id, kind |-> "reconnect", pc |-> "run", step |-> 0, err |-> "", sub |-> ""]

switchDatabase(id, name) ==
    [id |-> id, kind |-> "switchDatabase", pc |-> "run", step |-> 0, err |-> "", sub |-> "",
     name |-> name]

\* The commitChanges commands that have not run yet.
Folding(cs) == {c \in cs : c.kind = "commitChanges" /\ c.pc = "run"}

\* The smallest command number not in use.
FreeId(cs) == SetMin({n \in 0..Cardinality(cs) : \A c \in cs : c.id # n})

\* A write into a locally inserted row is seen through every copy of the row.
Aliased(cs, r) ==
    (cs \ Folding(cs)) \cup
    {[c EXCEPT !.snap.rows =
          [p \in 1..Len(c.snap.rows) |->
              IF c.snap.rowIds[p] > 0 /\ \E q \in 1..Len(r.rowIds) : r.rowIds[q] = c.snap.rowIds[p]
              THEN r.rows[CHOOSE q \in 1..Len(r.rowIds) : r.rowIds[q] = c.snap.rowIds[p]]
              ELSE c.snap.rows[p]]] : c \in Folding(cs)}

\* append wrote the new row into slot p of the backing array.
SlotWritten(cs, p, row, rid) ==
    (cs \ Folding(cs)) \cup
    {IF c.shared /\ p <= Len(c.snap.rows)
     THEN [c EXCEPT !.snap.rows[p] = row, !.snap.rowIds[p] = rid]
     ELSE c : c \in Folding(cs)}

\* The live pane's rows moved to another backing array.
Unshared(cs) ==
    (cs \ Folding(cs)) \cup {[c EXCEPT !.shared = FALSE] : c \in Folding(cs)}

NoOp == [op |-> "-", n |-> 0]

\* The database the program was started on, and the administrative database.
StartDatabase == "db"

AdminDatabase == "postgres"

\* NewSidebarModel, then SetFocused(true) and SetActiveDatabase in NewModel.
NewSidebarModel ==
    [focused |-> TRUE, searching |-> FALSE, copying |-> FALSE, confirmDelete |-> FALSE,
     activeDatabase |-> StartDatabase]

\* SidebarModel.IsSearching: the sidebar is in an input mode.
IsSearching(sb) == sb.searching \/ sb.copying \/ sb.confirmDelete

NewEditorModel == [focused |-> FALSE, ghost |-> FALSE]

NewScriptsModalModel == [visible |-> FALSE]

\* db.Connect: the handle records the database of the connection string and
\* holds an open connection to it.
Connect == [database |-> StartDatabase, connString |-> StartDatabase, on |-> StartDatabase]

\* d.Conn is a connection that was not closed.
Live(cn) == cn.on # ""

\* d.Conn.Close(ctx): the handle keeps the closed connection.
Closed(cn) == [cn EXCEPT !.on = ""]

\* What a call of the driver leaves: the handle, whether the call succeeded,
\* the database a DROP DATABASE was issued over ("" for none), and whether the
\* call installed a connection to another database.
Result(cn, ok, issuedOn, switched) ==
    [conn |-> cn, ok |-> ok, issuedOn |-> issuedOn, switched |-> switched]

\* A statement on d.Conn: it fails on a closed connection, and may fail on a
\* live one.
Exec(cn) == {Result(cn, ok, "", FALSE) : ok \in IF Live(cn) THEN BOOLEAN ELSE {FALSE}}

\* DB.Reconnect: close d.Conn, connect with d.connString.
Reconnect(cn) ==
    {Result([cn EXCEPT !.on = cn.connString], TRUE, "", FALSE),
     Result(Closed(cn), FALSE, "", FALSE)}

\* A DB.SwitchDatabase that leaves the connection string as it was.
SwitchedKeepsConnString(cn, database) ==
    [database |-> database, connString |-> cn.connString, on |-> database]

\* The handle after a successful DB.SwitchDatabase(database): d.Conn,
\* d.connString and d.database are assigned together.
Switched(cn, database) ==
    [database |-> database, connString |-> database, on |-> database]

\* DB.SwitchDatabase: close d.Conn, connect to database.
SwitchDatabase(cn, database) ==
    {Result(Switched(cn, database), TRUE, "", TRUE), Result(Closed(cn), FALSE, "", FALSE)}

\* DB.DropDatabase.  The server refuses to drop the database the statement
\* is issued over.
DropDatabase(cn, name) ==
    IF cn.database = name
    THEN {Result(Closed(cn), FALSE, "", FALSE)} \cup
         {Result(Switched(cn, AdminDatabase), ok, AdminDatabase, TRUE) :
              ok \in IF name = AdminDatabase THEN {FALSE} ELSE BOOLEAN}
    ELSE {Result(cn, ok, cn.on, FALSE) :
              ok \in IF Live(cn) /\ cn.on # name THEN BOOLEAN ELSE {FALSE}}

\* DB.CopyDatabase: on the source database it switches to the administrative
\* one for the CREATE DATABASE and back, also after a failed CREATE.
CopyDatabase(cn, source) ==
    IF cn.database = source
    THEN {Result(Closed(cn), FALSE, "", FALSE),
          Result(Switched(Switched(cn, AdminDatabase), source), TRUE, "", TRUE),
          Result(Switched(Switched(cn, AdminDatabase), source), FALSE, "", TRUE),
          Result(Closed(Switched(cn, AdminDatabase)), FALSE, "", TRUE)}
    ELSE Exec(cn)

SessionInit ==
    /\ results = NewResultsModel
    /\ activePane = SidebarPane
    /\ lastTable = ""
    /\ confirmClearEdits = FALSE
    /\ panicked = FALSE
    /\ cmds = {}
    /\ db = <<>>
    /\ folds = <<>>
    /\ sidebar = NewSidebarModel
    /\ editor = NewEditorModel
    /\ scriptsModal = NewScriptsModalModel
    /\ conn = Connect

(***************************************************************************)
(* The ledger on its own: every operation of ChangeTracker's exported      *)
(* interface, called in any order with arguments drawn from small sets.    *)
(* The row keys include keys over different column sets and the empty      *)
(* string, the cases in which pkMatch and equality differ.                 *)
(***************************************************************************)
Edit(tbl, pk, col, new) ==
    [TableName |-> tbl, RowPKValues |-> pk, ColumnName |-> col, OldValue |-> "o", NewValue |-> new]

EditArgs ==
    { Edit("t", [a |-> "1"], "b", "x"),
      Edit("t", [a |-> "1"], "b", NULL),
      Edit("t", [a |-> ""], "b", "x"),
      Edit("t", [b |-> "1"], "b", "y"),
      Edit("u", [a |-> "1"], "a", "x"),
      Edit("t", [a |-> NULL, b |-> "2"], "b", "x") }

DeleteArgs ==
    { [TableName |-> "t", RowPKValues |-> [a |-> ""]],
      [TableName |-> "t", RowPKValues |-> [b |-> "1"]],
      [TableName |-> "t", RowPKValues |-> [a |-> NULL, b |-> "2"]] }

InsertArgs ==
    { [TableName |-> "t", Values |-> [a |-> "5", b |-> NULL]],
      [TableName |-> "t", Values |-> EmptyMap] }

StagingOps == {"StageEdit", "StageDelete", "StageInsert"}

LedgerInit ==
    /\ ct = NewChangeTracker
    /\ lastOp = [op |-> "NewChangeTracker", n |-> 0]
    /\ sql = NoSQL
    /\ SessionInit

LStageEdit ==
    \E e \in EditArgs :
        /\ PendingCount(StageEdit(ct, e)) <= MaxPending
        /\ Len(StageEdit(ct, e).undoStack) <= MaxUndo
        /\ ct' = Renumbered(StageEdit(ct, e))
        /\ lastOp' = [op |-> "StageEdit", n |-> PendingCount(ct)]
        /\ sql' = NoSQL
        /\ UNCHANGED sessionVars

LStageDelete ==
    \E d \in DeleteArgs :
        /\ PendingCount(ct) < MaxPending
        /\ Len(ct.undoStack) < MaxUndo
        /\ ct' = Renumbered(StageDelete(ct, d))
        /\ lastOp' = [op |-> "StageDelete", n |-> PendingCount(ct)]
        /\ sql' = NoSQL
        /\ UNCHANGED sessionVars

LUnstageDelete ==
    \E d \in DeleteArgs :
        /\ ct' = Renumbered(UnstageDelete(ct, d.TableName, d.RowPKValues))
        /\ lastOp' = [op |-> "UnstageDelete", n |-> PendingCount(ct)]
        /\ sql' = NoSQL
        /\ UNCHANGED sessionVars

LStageInsert ==
    \E ins \in InsertArgs :
        /\ PendingCount(ct) < MaxPending
        /\ Len(ct.undoStack) < MaxUndo
        /\ ct' = Renumbered(StageInsert(ct, ins))
        /\ lastOp' = [op |-> "StageInsert", n |-> PendingCount(ct)]
        /\ sql' = NoSQL
        /\ UNCHANGED sessionVars

LUndo ==
    /\ ct' = Renumbered(Undo(ct))
    /\ lastOp' = [op |-> "Undo", n |-> PendingCount(ct)]
    /\ sql' = NoSQL
    /\ UNCHANGED sessionVars

LClear ==
    /\ ct' = Renumbered(Clear(ct))
    /\ lastOp' = [op |-> "Clear", n |-> PendingCount(ct)]
    /\ sql' = NoSQL
    /\ UNCHANGED sessionVars

LGenerateSQL ==
    \E ords \in OrdsFor(ct) :
        /\ sql' = GenerateSQL(ct, ords)
        /\ lastOp' = [op |-> "GenerateSQL", n |-> PendingCount(ct)]
        /\ ct' = ct
        /\ UNCHANGED sessionVars

LedgerNext ==
    \/ LStageEdit
    \/ LStageDelete
    \/ LUnstageDelete
    \/ LStageInsert
    \/ LUndo
    \/ LClear

SpecLedger == LedgerInit /\ [][LedgerNext]_vars

(***************************************************************************)
(* GenerateSQL as a function of the ledger: the ledgers are those the      *)
(* staging calls build, and GenerateSQL is applied to each under every     *)
(* order in which Go may visit the maps.                                   *)
(***************************************************************************)
SQLNext ==
    \/ LStageEdit
    \/ LStageDelete
    \/ LStageInsert
    \/ LGenerateSQL

SpecSQL == LedgerInit /\ [][SQLNext]_vars

(***************************************************************************)
(* The session: app.Model.Update on key and result messages, and the steps *)
(* of the commands it dispatches.  Every Update call is one step of the    *)
(* event loop; the steps of the commands interleave with them freely.      *)
(***************************************************************************)
Init ==
    /\ ct = NewChangeTracker
    /\ lastOp = NoOp
    /\ sql = NoSQL
    /\ SessionInit

Panic ==
    /\ panicked' = TRUE
    /\ UNCHANGED <<ct, lastOp, sql, results, activePane, lastTable, confirmClearEdits, cmds,
                   db, folds, sidebar, editor, scriptsModal, conn>>

\* The condition under which ctrl+s and ctrl+x act.  GetInsertedRowValues is
\* only evaluated when HasChanges is false.
AnythingPendingPanics == ~HasChanges(ct) /\ GetInsertedRowValuesPanics(results)

AnythingPending ==
    IF HasChanges(ct) THEN TRUE ELSE Len(GetInsertedRowValues(results)) > 0

\* A key forwarded to the focused Results pane, the user pressing the keys of
\* navKeys in navigation mode and those of editKeys while editing a cell.
PaneKey(navKeys, editKeys) ==
    /\ ~panicked
    /\ ~scriptsModal.visible
    /\ ~confirmClearEdits
    /\ activePane = ResultsPane
    /\ ~results.previewing
    /\ ~results.searching
    /\ \E key \in (IF results.editing THEN editKeys ELSE navKeys), realloc \in BOOLEAN :
        IF ResultsUpdatePanics(results, key)
        THEN ~realloc /\ Panic
        ELSE LET rid == Len(folds) + 1
                 u == ResultsUpdate(results, ct, key, rid)
                 appended == Len(u.r.rows) > Len(results.rows)
                 deletes == Len(u.t.Deletes) - Len(ct.Deletes)
             IN  /\ realloc => appended
                 /\ appended => Len(folds) < MaxLocalRows
                 /\ key = "z" => Len(results.editValue) < MaxEditLen
                 /\ PendingCount(u.t) <= MaxStaged
                 /\ Len(u.t.undoStack) <= MaxStaged
                 /\ results' = Settled(u.r)
                 /\ ct' = Renumbered(u.t)
                 /\ folds' = IF appended THEN Append(folds, 0) ELSE folds
                 /\ cmds' = IF ~appended THEN Aliased(cmds, u.r)
                            ELSE IF realloc THEN Unshared(cmds)
                            ELSE SlotWritten(cmds, Len(u.r.rows), u.r.rows[Len(u.r.rows)], rid)
                 /\ lastOp' = [op |-> IF key = "d" /\ deletes < 0 THEN "UnstageDelete"
                                      ELSE IF key = "d" /\ deletes > 0 THEN "StageDelete"
                                      ELSE "-",
                               n |-> 0]
                 /\ UNCHANGED <<sql, activePane, lastTable, confirmClearEdits, panicked, db,
                                sidebar, editor, scriptsModal, conn>>

ResultsKey == PaneKey(NavKeys, EditKeys)

cycleFocus(pane, forward) ==
    IF forward
    THEN CASE pane = SidebarPane -> EditorPane
           [] pane = EditorPane -> ResultsPane
           [] pane = ResultsPane -> SidebarPane
    ELSE CASE pane = SidebarPane -> ResultsPane
           [] pane = EditorPane -> SidebarPane
           [] pane = ResultsPane -> EditorPane

\* The conditions under which Update breaks out of case "tab" (forward) or
\* case "shift+tab" and forwards the key to the focused pane.
FocusKeptIgnoringSidebar(forward) ==
    \/ activePane = ResultsPane
          /\ (results.editing \/ results.searching \/ results.previewing)
    \/ forward /\ activePane = EditorPane /\ editor.ghost

FocusKept(forward) ==
    \/ activePane = ResultsPane
          /\ (results.editing \/ results.searching \/ results.previewing)
    \/ activePane = SidebarPane /\ IsSearching(sidebar)
    \/ forward /\ activePane = EditorPane /\ editor.ghost

\* tab (forward) or shift+tab when Update reaches cycleFocus.
TabKey(forward) ==
    /\ ~panicked
    /\ ~scriptsModal.visible
    /\ ~confirmClearEdits
    /\ ~FocusKept(forward)
    /\ activePane' = cycleFocus(activePane, forward)
    /\ results' = SetFocused(results, activePane' = ResultsPane)
    /\ sidebar' = [sidebar EXCEPT !.focused = activePane' = SidebarPane]
    /\ editor' = [editor EXCEPT !.focused = activePane' = EditorPane]
    /\ lastOp' = NoOp
    /\ UNCHANGED <<ct, sql, lastTable, confirmClearEdits, panicked, cmds, db, folds,
                   scriptsModal, conn>>

\* tab and shift+tab.
CycleFocus == \E forward \in BOOLEAN : TabKey(forward)

\* ctrl+s: dispatch commitChanges when anything is pending; limit bounds the
\* commands in flight.
CommitKey(limit) ==
    /\ ~panicked
    /\ ~scriptsModal.visible
    /\ ~confirmClearEdits
    /\ ~(activePane = ResultsPane /\ results.previewing)
    /\ Cardinality(cmds) < limit
    /\ IF AnythingPendingPanics
       THEN Panic
       ELSE /\ AnythingPending
            /\ cmds' = cmds \cup {commitChanges(FreeId(cmds), results)}
            /\ lastOp' = NoOp
            /\ UNCHANGED <<ct, sql, results, activePane, lastTable, confirmClearEdits,
                           panicked, db, folds, sidebar, editor, scriptsModal, conn>>

CtrlS == CommitKey(MaxInFlight)

\* ctrl+x: ask for confirmation when anything is pending.
CtrlX ==
    /\ ~panicked
    /\ ~scriptsModal.visible
    /\ ~confirmClearEdits
    /\ IF AnythingPendingPanics
       THEN Panic
       ELSE /\ AnythingPending
            /\ confirmClearEdits' = TRUE
            /\ lastOp' = NoOp
            /\ UNCHANGED <<ct, sql, results, activePane, lastTable, panicked, cmds, db,
                           folds, sidebar, editor, scriptsModal, conn>>

\* Any key while the confirmation is open: "y" clears, every other key cancels.
ConfirmKey ==
    /\ ~panicked
    /\ ~scriptsModal.visible
    /\ confirmClearEdits
    /\ \E key \in {"y", "n"} :
        IF key = "y" /\ ClearInsertedRowsPanics(results)
        THEN /\ ct' = Renumbered(Clear(ct))
             /\ panicked' = TRUE
             /\ UNCHANGED <<lastOp, results, confirmClearEdits>>
        ELSE /\ ct' = IF key = "y" THEN Renumbered(Clear(ct)) ELSE ct
             /\ results' = IF key = "y" THEN ClearInsertedRows(results) ELSE results
             /\ confirmClearEdits' = FALSE
             /\ lastOp' = IF key = "y" THEN [op |-> "discard", n |-> PendingCount(ct)] ELSE NoOp
             /\ UNCHANGED panicked
    /\ UNCHANGED <<sql, activePane, lastTable, cmds, db, folds, sidebar, editor,
                   scriptsModal, conn>>

\* Enter on a table in the focused sidebar, and the TableSelectedMsg it sends.
SelectTable(names, limit) ==
    /\ ~panicked
    /\ ~scriptsModal.visible
    /\ ~confirmClearEdits
    /\ activePane = SidebarPane
    /\ ~IsSearching(sidebar)
    /\ Cardinality(cmds) < limit
    /\ \E name \in names :
        /\ lastTable' = name
        /\ cmds' = cmds \cup {loadTable(FreeId(cmds), name)}
    /\ lastOp' = NoOp
    /\ UNCHANGED <<ct, sql, results, activePane, confirmClearEdits, panicked, db, folds,
                   sidebar, editor, scriptsModal, conn>>

TableSelected == SelectTable(TableNames, MaxInFlight)

\* SetData without the SetTableContext that follows it.
ShowTableDataKeepsContext(r, tableName, err) ==
    IF err # ""
    THEN SetError(r)
    ELSE SetData(r, TableColumns(tableName), TableRows(tableName))

\* What Update on tableDataMsg leaves in the pane for the result of loading
\* tableName, err being the error of the result ("" for none).
ShowTableData(r, tableName, err) ==
    IF err # ""
    THEN SetError(r)
    ELSE SetTableContext(SetData(r, TableColumns(tableName), TableRows(tableName)),
                         tableName, GetPrimaryKeys(tableName))

\* Update on the tableDataMsg of command c; op is what the history records.
HandleTableData(c, err, op) ==
    /\ results' = ShowTableData(results, c.tableName, err)
    /\ cmds' = Unshared(cmds \ {c})
    /\ lastOp' = op
    /\ UNCHANGED <<ct, sql, activePane, lastTable, confirmClearEdits, panicked, db, folds,
                   sidebar, editor, scriptsModal, conn>>

\* The loadTable command (GetPrimaryKeys, then the SELECT, either of which may
\* fail) and Update on the tableDataMsg it returns.  The command reads nothing
\* but the database, so its run is taken together with the handling of its
\* message.
TableDataMsg ==
    /\ ~panicked
    /\ \E c \in cmds, err \in {"", "GetPrimaryKeys", "ExecuteQuery"} :
        /\ c.kind = "loadTable"
        /\ c.pc = "run"
        /\ Live(conn) \/ err = "GetPrimaryKeys"
        /\ HandleTableData(c, err, NoOp)

\* for _, ins := range inserts { m.changes.StageInsert(ins) }
StageInserts(t, inserts) ==
    LET F[k \in 0..Len(inserts)] == IF k = 0 THEN t ELSE StageInsert(F[k - 1], inserts[k])
    IN  F[Len(inserts)]

\* tx.Exec succeeded for statement c.i.
ExecOk(c) ==
    [c EXCEPT !.tx = Append(c.tx, [query |-> c.queries[c.i + 1], args |-> c.allArgs[c.i + 1]]),
              !.i = c.i + 1,
              !.pc = IF c.i + 1 < Len(c.queries) THEN "commit loop" ELSE "tx.Commit"]

\* The loop going on to the next statement after a failed tx.Exec.
ExecFailedGoesOn(c) ==
    [c EXCEPT !.i = c.i + 1,
              !.pc = IF c.i + 1 < Len(c.queries) THEN "commit loop" ELSE "tx.Commit"]

\* tx.Exec failed: tx.Rollback, and the command returns the error.
ExecFailed(c) == [c EXCEPT !.tx = <<>>, !.pc = "done", !.err = "exec"]

\* The loop over queries; the statement with index failAt - 1 fails if reached.
ExecLoop(c, failAt) ==
    LET F[k \in 0..Len(c.queries)] ==
            IF k = 0 THEN c
            ELSE IF F[k - 1].pc # "commit loop" THEN F[k - 1]
            ELSE IF F[k - 1].i + 1 = failAt THEN ExecFailed(F[k - 1])
            ELSE ExecOk(F[k - 1])
    IN  F[Len(c.queries)]

\* What the driver may answer to a transaction of n statements: whether Begin
\* succeeds, which Exec fails if it is reached (0 for none), and whether Commit
\* succeeds if it is reached.
DriverAnswers(n) ==
    {[begin |-> FALSE, failAt |-> 0, commit |-> FALSE]} \cup
    {[begin |-> TRUE, failAt |-> k, commit |-> ok] : k \in 0..n, ok \in BOOLEAN}

\* commitChanges from Begin on, for the statements in c.
RunTx(c, answer) ==
    IF Len(c.queries) = 0 THEN [c EXCEPT !.pc = "done"]
    ELSE IF ~answer.begin THEN [c EXCEPT !.pc = "done", !.err = "begin transaction"]
    ELSE LET e == ExecLoop([c EXCEPT !.pc = "commit loop"], answer.failAt)
         IN  IF e.pc # "tx.Commit" THEN e
             ELSE IF answer.commit THEN [e EXCEPT !.pc = "done", !.count = Len(e.queries),
                                             !.committed = TRUE]
             ELSE [e EXCEPT !.pc = "done", !.tx = <<>>, !.err = "commit"]

\* The command that has returned: its locals are gone, the message stays.  The
\* history field staged is kept for a command that returned an error.
Returned(c) ==
    [c EXCEPT !.queries = <<>>, !.allArgs = <<>>, !.tx = <<>>,
              !.staged = IF c.err = "" THEN 0 ELSE c.staged]

\* The commitChanges command: fold the local rows of the pane it captured into
\* the ledger, generate the statements, and run them in one transaction.  The
\* part after GenerateSQL touches nothing but the command's own transaction
\* and the database, so the command is one step.
RunCommit(c) ==
        IF GetInsertedRowValuesPanics(c.snap)
        THEN Panic
        ELSE LET inserts == GetInsertedRowValues(c.snap)
                 ids == InsertedRowIds(c.snap)
                 t == StageInserts(ct, inserts)
             IN  /\ \A j \in 1..Len(ids) : folds[ids[j]] < MaxFolds
                 /\ PendingCount(t) <= MaxStaged
                 /\ Len(t.undoStack) <= MaxStaged
                 /\ ct' = Renumbered(t)
                 /\ folds' = [k \in 1..Len(folds) |->
                                 folds[k] + Cardinality({j \in 1..Len(ids) : ids[j] = k})]
                 /\ \E ords \in OrdsFor(t), answer \in DriverAnswers(PendingCount(t)) :
                        LET g == GenerateSQL(t, ords)
                            d == RunTx([c EXCEPT !.snap = NoSnapshot, !.shared = FALSE,
                                                 !.staged = Len(inserts),
                                                 !.queries = g.queries, !.allArgs = g.allArgs],
                                       answer)
                        IN  /\ answer.begin => Live(conn)
                            /\ cmds' = (cmds \ {c}) \cup {Returned(d)}
                            /\ db' = IF d.committed
                                     THEN Append(db, [id |-> d.id, tx |-> d.tx])
                                     ELSE db
                 /\ lastOp' = NoOp
                 /\ UNCHANGED <<sql, results, activePane, lastTable, confirmClearEdits,
                                panicked, sidebar, editor, scriptsModal, conn>>

RunCommitChanges == ~panicked /\ \E c \in Folding(cmds) : RunCommit(c)

\* What the model keeps of the database: the transactions of the commands
\* whose result message Update has not handled yet.
Forgotten(d, id) == SelectSeq(d, LAMBDA e : e.id # id)

\* Update on the commitResultMsg of command c.
HandleCommitResult(c) ==
        /\ c.kind = "commitChanges"
        /\ c.pc = "done"
        /\ db' = Forgotten(db, c.id)
        /\ IF c.err # ""
           THEN /\ cmds' = cmds \ {c}
                /\ lastOp' = NoOp
                /\ UNCHANGED ct
           ELSE /\ ct' = Renumbered(Clear(ct))
                /\ lastOp' = [op |-> "commit ok", n |-> PendingCount(ct)]
                /\ cmds' = (cmds \ {c}) \cup
                       (IF lastTable # "" THEN {loadTable(FreeId(cmds \ {c}), lastTable)} ELSE {})
        /\ UNCHANGED <<sql, results, activePane, lastTable, confirmClearEdits, panicked,
                       folds, sidebar, editor, scriptsModal, conn>>

CommitResultMsg == ~panicked /\ \E c \in cmds : HandleCommitResult(c)

\* ctrl+r: dispatch reconnect, from any pane.
ReconnectKey(limit) ==
    /\ ~panicked
    /\ ~scriptsModal.visible
    /\ ~confirmClearEdits
    /\ Cardinality(cmds) < limit
    /\ cmds' = cmds \cup {reconnect(FreeId(cmds))}
    /\ lastOp' = NoOp
    /\ UNCHANGED <<ct, sql, results, activePane, lastTable, confirmClearEdits, panicked, db,
                   folds, sidebar, editor, scriptsModal, conn>>

CtrlR == ReconnectKey(MaxInFlight)

\* Update on the reconnectResultMsg of command c.
HandleReconnect(c, err) ==
        /\ c.kind = "reconnect"
        /\ IF err # ""
           THEN /\ cmds' = cmds \ {c}
                /\ lastOp' = NoOp
                /\ UNCHANGED ct
           ELSE /\ ct' = Renumbered(Clear(ct))
                /\ lastOp' = [op |-> "reconnect ok", n |-> PendingCount(ct)]
                /\ cmds' = (cmds \ {c}) \cup
                       (IF lastTable # "" THEN {loadTable(FreeId(cmds \ {c}), lastTable)} ELSE {})
        /\ UNCHANGED <<sql, results, activePane, lastTable, confirmClearEdits, panicked, db,
                       folds, sidebar, editor, scriptsModal>>

\* The reconnect command (Reconnect, then ListTables, either of which may fail)
\* and Update on the reconnectResultMsg it returns.
ReconnectResultMsg ==
    /\ ~panicked
    /\ \E c \in cmds, err \in {"", "Reconnect", "ListTables"} :
        /\ c.pc = "run"
        /\ HandleReconnect(c, err)
        /\ conn' = IF err = "Reconnect" THEN Closed(conn) ELSE [conn EXCEPT !.on = conn.connString]

\* Enter on a database in the focused sidebar, and the DatabaseSelectedMsg it sends.
SelectDatabase(names, limit) ==
    /\ ~panicked
    /\ ~scriptsModal.visible
    /\ ~confirmClearEdits
    /\ activePane = SidebarPane
    /\ ~IsSearching(sidebar)
    /\ Cardinality(cmds) < limit
    /\ \E name \in names : cmds' = cmds \cup {switchDatabase(FreeId(cmds), name)}
    /\ lastOp' = NoOp
    /\ UNCHANGED <<ct, sql, results, activePane, lastTable, confirmClearEdits, panicked, db,
                   folds, sidebar, editor, scriptsModal, conn>>

DatabaseSelected == SelectDatabase({StartDatabase}, MaxInFlight)

\* Update on the switchDBResultMsg of command c.
HandleSwitchDB(c, err) ==
        /\ c.kind = "switchDatabase"
        /\ IF err # ""
           THEN /\ cmds' = cmds \ {c}
                /\ lastOp' = NoOp
                /\ UNCHANGED <<ct, lastTable, results, sidebar>>
           ELSE /\ sidebar' = [sidebar EXCEPT !.activeDatabase = c.name]
                /\ ct' = Renumbered(Clear(ct))
                /\ lastTable' = ""
                /\ results' = ResultsClear(results)
                /\ lastOp' = [op |-> "switch ok", n |-> PendingCount(ct)]
                /\ cmds' = Unshared(cmds \ {c})
        /\ UNCHANGED <<sql, activePane, confirmClearEdits, panicked, db, folds, editor,
                       scriptsModal>>

\* The switchDatabase command (SwitchDatabase, ListTables, ListDatabases, any of
\* which may fail) and Update on the switchDBResultMsg it returns.
SwitchDBResultMsg ==
    /\ ~panicked
    /\ \E c \in cmds, err \in {"", "SwitchDatabase", "ListTables", "ListDatabases"} :
        /\ c.pc = "run"
        /\ HandleSwitchDB(c, err)
        /\ conn' = IF err = "SwitchDatabase" THEN Closed(conn) ELSE Switched(conn, c.name)

Next ==
    \/ ResultsKey
    \/ CycleFocus
    \/ CtrlS
    \/ CtrlX
    \/ ConfirmKey
    \/ TableSelected
    \/ TableDataMsg
    \/ RunCommitChanges
    \/ CommitResultMsg
    \/ CtrlR
    \/ ReconnectResultMsg
    \/ DatabaseSelected
    \/ SwitchDBResultMsg

Spec == Init /\ [][Next]_vars

(***************************************************************************)
(* The cell preview, in a session on a database that also has the table v  *)
(* without primary key: the user browses tables, moves in the Results pane, *)
(* edits cells and opens the preview of a cell.                            *)
(***************************************************************************)
\* "v" in navigation mode, and every key while the preview is open.  ctrl+s
\* is not a global shortcut while the Results pane previews.
PreviewKey ==
    /\ ~panicked
    /\ ~scriptsModal.visible
    /\ ~confirmClearEdits
    /\ activePane = ResultsPane
    /\ \E key \in (IF results.previewing THEN PreviewKeys ELSE {"v"}) :
        /\ ~results.previewing => ~results.editing
        /\ IF ResultsUpdatePanics(results, key)
           THEN Panic
           ELSE LET u == ResultsUpdate(results, ct, key, 0)
                IN  /\ Len(u.r.previewValue) <= MaxEditLen
                    /\ PendingCount(u.t) <= MaxStaged
                    /\ Len(u.t.undoStack) <= MaxStaged
                    /\ results' = Settled(u.r)
                    /\ ct' = Renumbered(u.t)
                    /\ cmds' = Aliased(cmds, u.r)
                    /\ lastOp' = NoOp
                    /\ UNCHANGED <<sql, activePane, lastTable, confirmClearEdits, panicked,
                                   db, folds, sidebar, editor, scriptsModal, conn>>

TableSelectedAny == SelectTable(AllTableNames, MaxInFlight)

PreviewNext ==
    \/ ResultsKey
    \/ PreviewKey
    \/ CycleFocus
    \/ TableSelectedAny
    \/ TableDataMsg
    \/ DatabaseSelected
    \/ SwitchDBResultMsg

SpecPreview == Init /\ [][PreviewNext]_vars

(***************************************************************************)
(* The input modes of the panes and the scripts modal, which decide where  *)
(* a key goes.                                                             *)
(***************************************************************************)
\* Keys forwarded to the focused sidebar that change its input mode; "n"
\* stands for any other key of one character.
SidebarKeys == {"/", "c", "x", "esc", "n"}

\* SidebarModel.Update on these keys, the sidebar listing databases when "c"
\* or "x" is pressed.
SidebarUpdate(sb, key) ==
    IF sb.confirmDelete THEN [sb EXCEPT !.confirmDelete = FALSE]
    ELSE IF sb.copying THEN [sb EXCEPT !.copying = key # "esc"]
    ELSE IF sb.searching THEN [sb EXCEPT !.searching = key # "esc"]
    ELSE CASE key = "/" -> [sb EXCEPT !.searching = TRUE]
           [] key = "c" -> [sb EXCEPT !.copying = TRUE]
           [] key = "x" -> [sb EXCEPT !.confirmDelete = TRUE]
           [] OTHER -> sb

SidebarKey ==
    /\ ~panicked
    /\ ~scriptsModal.visible
    /\ ~confirmClearEdits
    /\ activePane = SidebarPane
    /\ \E key \in SidebarKeys : sidebar' = SidebarUpdate(sidebar, key)
    /\ lastOp' = NoOp
    /\ UNCHANGED <<ct, sql, results, activePane, lastTable, confirmClearEdits, panicked,
                   cmds, db, folds, editor, scriptsModal, conn>>

\* A key forwarded to the focused editor: a character typed, or tab while a
\* ghost completion shows.  updateGhost then finds a completion or none.
EditorKey ==
    /\ ~panicked
    /\ ~scriptsModal.visible
    /\ ~confirmClearEdits
    /\ activePane = EditorPane
    /\ editor.focused
    /\ \E ghost \in BOOLEAN : editor' = [editor EXCEPT !.ghost = ghost]
    /\ lastOp' = NoOp
    /\ UNCHANGED <<ct, sql, results, activePane, lastTable, confirmClearEdits, panicked,
                   cmds, db, folds, sidebar, scriptsModal, conn>>

\* ctrl+o opens the scripts modal; esc or ctrl+o closes it, and any other
\* key stays inside it.
ScriptsKey ==
    /\ ~panicked
    /\ IF scriptsModal.visible
       THEN \E key \in {"esc", "n"} : scriptsModal' = [visible |-> key # "esc"]
       ELSE ~confirmClearEdits /\ scriptsModal' = [visible |-> TRUE]
    /\ lastOp' = NoOp
    /\ UNCHANGED <<ct, sql, results, activePane, lastTable, confirmClearEdits, panicked,
                   cmds, db, folds, sidebar, editor, conn>>

\* "/" in navigation mode, and every key while the row search is open.
SearchKey ==
    /\ ~panicked
    /\ ~scriptsModal.visible
    /\ ~confirmClearEdits
    /\ activePane = ResultsPane
    /\ results.focused
    /\ ~results.previewing
    /\ IF results.searching
       THEN \E key \in SearchKeys, hit \in -1..Len(results.rows) - 1 :
               results' = updateSearchMode(results, key, hit)
       ELSE ~results.editing /\ results' = ResultsUpdate(results, ct, "/", 0).r
    /\ lastOp' = NoOp
    /\ UNCHANGED <<ct, sql, activePane, lastTable, confirmClearEdits, panicked,
                   cmds, db, folds, sidebar, editor, scriptsModal, conn>>

\* The keys that open a cell editor and close it again.
CellKey == PaneKey({"e"}, {"esc"})

FocusNext ==
    \/ CycleFocus
    \/ SidebarKey
    \/ EditorKey
    \/ ScriptsKey
    \/ SearchKey
    \/ CellKey
    \/ PreviewKey
    \/ CtrlX
    \/ ConfirmKey
    \/ TableSelected
    \/ TableDataMsg

SpecFocus == Init /\ [][FocusNext]_vars

(***************************************************************************)
(* The dispatched database operations step by step.  Update returns a      *)
(* tea.Cmd; the runtime calls it once in a goroutine of its own and sends  *)
(* the value it returns to the event loop as a message.  A command is at   *)
(* "run" until its goroutine starts, at "call" while it is inside driver   *)
(* call number step + 1 on the one connection of db.DB, and at "done" when *)
(* it has returned its message: err is the error the message carries, sub  *)
(* the error of a part the message still reports success for.              *)
(***************************************************************************)
\* Commands in flight when the user starts another one, where operations overlap.
MaxOverlap == 2

CmdIds == 0..MaxOverlap - 1

\* Statements run from the editor, given by what isSelectLike,
\* extractTableName, extractDDLTableName and isCreateTable make of the text
\* and by the column name of the result when the statement renames it:
\* SELECT * FROM t, SELECT 1, UPDATE t SET ..., CREATE TABLE v (...),
\* ALTER TABLE t ....
Queries ==
    { [select |-> TRUE, table |-> "t", ddl |-> "", create |-> FALSE, alias |-> ""],
      [select |-> TRUE, table |-> "", ddl |-> "", create |-> FALSE, alias |-> ""],
      [select |-> FALSE, table |-> "t", ddl |-> "", create |-> FALSE, alias |-> ""],
      [select |-> FALSE, table |-> "", ddl |-> "v", create |-> TRUE, alias |-> ""],
      [select |-> FALSE, table |-> "", ddl |-> "t", create |-> FALSE, alias |-> ""] }

\* The row-returning statements, SELECT a AS b FROM t among them: its result
\* has the rows of t under a column list without the primary-key column.
SelectQueries ==
    {q \in Queries : q.select} \cup
    { [select |-> TRUE, table |-> "t", ddl |-> "", create |-> FALSE, alias |-> "b"] }

executeQuery(id, q) ==
    [id |-> id, kind |-> "executeQuery", pc |-> "run", step |-> 0, err |-> "", sub |-> "",
     query |-> q]

\* wasActive is computed when the command is made; issuedOn and switched are
\* history of its DropDatabase call, switchedToDB is result.switchedToDB.
dropDatabase(id, name, wasActive) ==
    [id |-> id, kind |-> "dropDatabase", pc |-> "run", step |-> 0, err |-> "", sub |-> "",
     name |-> name, wasActive |-> wasActive, issuedOn |-> "", switched |-> FALSE,
     switchedToDB |-> ""]

copyDatabase(id, source) ==
    [id |-> id, kind |-> "copyDatabase", pc |-> "run", step |-> 0, err |-> "", sub |-> "",
     source |-> source]

refreshAfterDDL(id, tableName, load) ==
    [id |-> id, kind |-> "refreshAfterDDL", pc |-> "run", step |-> 0, err |-> "", sub |-> "",
     tableName |-> tableName, loadTable |-> load]

\* The driver calls the command makes on the connection when none of them fails.
DriverCalls(c) ==
    CASE c.kind = "loadTable" -> <<"GetPrimaryKeys", "ExecuteQuery">>
      [] c.kind = "executeQuery" ->
            IF c.query.select /\ c.query.table # ""
            THEN <<"ExecuteQuery", "GetPrimaryKeys">>
            ELSE <<"ExecuteQuery">>
      [] c.kind = "reconnect" -> <<"Reconnect", "ListTables">>
      [] c.kind = "dropDatabase" ->
            IF c.wasActive
            THEN <<"DropDatabase", "ListDatabases", "ListTables">>
            ELSE <<"DropDatabase", "ListDatabases">>
      [] c.kind = "copyDatabase" -> <<"CopyDatabase", "ListDatabases">>
      [] c.kind = "switchDatabase" -> <<"SwitchDatabase", "ListTables", "ListDatabases">>
      [] c.kind = "refreshAfterDDL" ->
            IF c.loadTable
            THEN <<"ListTables", "GetPrimaryKeys", "ExecuteQuery">>
            ELSE <<"ListTables">>

\* A failed call whose error the command does not return as the error of its
\* message: executeQuery ignores pkErr, refreshAfterDDL puts the error of the
\* table load into tableData.
ErrorKept(c) ==
    \/ c.kind = "executeQuery" /\ c.step = 1
    \/ c.kind = "refreshAfterDDL" /\ c.step >= 1

\* A command that returns no message when a driver call fails.
ReturnsNothingOnError(c, ok) ==
    IF ~ok THEN [c EXCEPT !.pc = "lost"]
    ELSE IF c.step + 1 = Len(DriverCalls(c)) THEN [c EXCEPT !.pc = "done", !.step = c.step + 1]
    ELSE [c EXCEPT !.step = c.step + 1]

\* The driver call the command is in returns, with success or with an error:
\* the command goes on to its next call or returns its message.
Returns(c, ok) ==
    IF ~ok
    THEN IF ErrorKept(c)
         THEN [c EXCEPT !.pc = "done", !.sub = DriverCalls(c)[c.step + 1]]
         ELSE [c EXCEPT !.pc = "done", !.err = DriverCalls(c)[c.step + 1]]
    ELSE IF c.step + 1 = Len(DriverCalls(c)) THEN [c EXCEPT !.pc = "done", !.step = c.step + 1]
    ELSE [c EXCEPT !.step = c.step + 1]

\* The goroutine of command id starts and enters its first driver call.
OpCall(id) ==
    /\ \E c \in cmds :
        /\ c.id = id
        /\ c.kind # "commitChanges"
        /\ c.pc = "run"
        /\ cmds' = (cmds \ {c}) \cup {[c EXCEPT !.pc = "call"]}
    /\ UNCHANGED <<ct, lastOp, sql, results, activePane, lastTable, confirmClearEdits,
                   panicked, db, folds, sidebar, editor, scriptsModal, conn>>

\* What the driver call the command is in may do to the handle and answer.
DriverResults(cn, c) ==
    LET call == DriverCalls(c)[c.step + 1]
    IN  CASE call = "Reconnect" -> Reconnect(cn)
          [] call = "SwitchDatabase" -> SwitchDatabase(cn, c.name)
          [] call = "DropDatabase" -> DropDatabase(cn, c.name)
          [] call = "CopyDatabase" -> CopyDatabase(cn, c.source)
          [] OTHER -> Exec(cn)

\* What dropDatabase keeps of the call that returned r to c: the history of
\* its DropDatabase, and m.db.Database() read after ListDatabases.
Noted(d, c, r) ==
    IF c.kind = "loadTable"
    THEN IF c.step = 1 /\ r.ok THEN [d EXCEPT !.servedBy = r.conn.on] ELSE d
    ELSE IF c.kind # "dropDatabase" THEN d
    ELSE IF c.step = 0 THEN [d EXCEPT !.issuedOn = r.issuedOn, !.switched = r.switched]
    ELSE IF c.step = 1 /\ r.ok /\ c.wasActive THEN [d EXCEPT !.switchedToDB = r.conn.database]
    ELSE d

OpReturn(id) ==
    /\ \E c \in cmds :
        /\ c.id = id
        /\ c.pc = "call"
        /\ \E r \in DriverResults(conn, c) :
            /\ cmds' = (cmds \ {c}) \cup {Noted(Returns(c, r.ok), c, r)}
            /\ conn' = r.conn
    /\ UNCHANGED <<ct, lastOp, sql, results, activePane, lastTable, confirmClearEdits,
                   panicked, db, folds, sidebar, editor, scriptsModal>>

\* ctrl+e in the focused editor, and the ExecuteQueryMsg it sends.
RunQuery(queries, limit) ==
    /\ ~panicked
    /\ ~scriptsModal.visible
    /\ ~confirmClearEdits
    /\ activePane = EditorPane
    /\ Cardinality(cmds) < limit
    /\ \E q \in queries : cmds' = cmds \cup {executeQuery(FreeId(cmds), q)}
    /\ lastOp' = NoOp
    /\ UNCHANGED <<ct, sql, results, activePane, lastTable, confirmClearEdits, panicked, db,
                   folds, sidebar, editor, scriptsModal, conn>>

\* A copy confirmed in the focused sidebar, and the CopyDatabaseMsg it sends.
CopyDB(names, limit) ==
    /\ ~panicked
    /\ ~scriptsModal.visible
    /\ ~confirmClearEdits
    /\ activePane = SidebarPane
    /\ ~IsSearching(sidebar)
    /\ Cardinality(cmds) < limit
    /\ \E source \in names : cmds' = cmds \cup {copyDatabase(FreeId(cmds), source)}
    /\ lastOp' = NoOp
    /\ UNCHANGED <<ct, sql, results, activePane, lastTable, confirmClearEdits, panicked, db,
                   folds, sidebar, editor, scriptsModal, conn>>

\* A drop confirmed in the focused sidebar, and the DeleteDatabaseMsg it
\* sends; wasActive := m.db.Database() == name.
DropDB(names, limit) ==
    /\ ~panicked
    /\ ~scriptsModal.visible
    /\ ~confirmClearEdits
    /\ activePane = SidebarPane
    /\ ~IsSearching(sidebar)
    /\ Cardinality(cmds) < limit
    /\ \E name \in names :
        cmds' = cmds \cup {dropDatabase(FreeId(cmds), name, conn.database = name)}
    /\ lastOp' = NoOp
    /\ UNCHANGED <<ct, sql, results, activePane, lastTable, confirmClearEdits, panicked, db,
                   folds, sidebar, editor, scriptsModal, conn>>

\* History of a handled tableDataMsg: the table and error of the result, the
\* loads still in flight, and whether the Update call before this one handled
\* a tableDataMsg while this load was in flight.
TableDataOp(c) ==
    [op |-> "tableDataMsg", n |-> 0, tableName |-> c.tableName, err |-> c.err,
     others |-> Cardinality({d \in cmds \ {c} : d.kind = "loadTable"}),
     follows |-> IF lastOp.op = "tableDataMsg" THEN lastOp.others > 0 ELSE FALSE]

TableDataDelivered(c) ==
    c.kind = "loadTable" /\ c.pc = "done" /\ HandleTableData(c, c.err, TableDataOp(c))

ReconnectDelivered(c) == c.pc = "done" /\ HandleReconnect(c, c.err) /\ UNCHANGED conn

SwitchDBDelivered(c) == c.pc = "done" /\ HandleSwitchDB(c, c.err) /\ UNCHANGED conn

\* Update on copyDBResultMsg: the status bar and the sidebar's list only.
CopyDBResultMsg(c) ==
    /\ c.kind = "copyDatabase"
    /\ c.pc = "done"
    /\ cmds' = cmds \ {c}
    /\ lastOp' = NoOp
    /\ UNCHANGED <<ct, sql, results, activePane, lastTable, confirmClearEdits, panicked, db,
                   folds, sidebar, editor, scriptsModal, conn>>

\* Update on dropDBResultMsg.
DropDBResultMsg(c) ==
    /\ c.kind = "dropDatabase"
    /\ c.pc = "done"
    /\ lastOp' = NoOp
    /\ IF c.err = "" /\ c.switchedToDB # ""
       THEN /\ sidebar' = [sidebar EXCEPT !.activeDatabase = c.switchedToDB]
            /\ ct' = Renumbered(Clear(ct))
            /\ lastTable' = ""
            /\ results' = ResultsClear(results)
            /\ cmds' = Unshared(cmds \ {c})
       ELSE /\ cmds' = cmds \ {c}
            /\ UNCHANGED <<ct, lastTable, results, sidebar>>
    /\ UNCHANGED <<sql, activePane, confirmClearEdits, panicked, db, folds, editor,
                   scriptsModal, conn>>

\* The rows of a SELECT without a table to extract.
QueryColumns == <<"a">>

QueryRows == << <<"1">> >>

\* result.Columns of a SELECT from a table.
ResultColumns(q) == IF q.alias = "" THEN TableColumns(q.table) ELSE <<q.alias>>

\* Update on queryResultMsg.
QueryResultMsg(c) ==
    /\ c.kind = "executeQuery"
    /\ c.pc = "done"
    /\ lastOp' = NoOp
    /\ LET q == c.query
           table == IF lastTable # "" THEN lastTable ELSE q.table
       IN  IF c.err # ""
           THEN /\ results' = SetError(results)
                /\ cmds' = Unshared(cmds \ {c})
                /\ UNCHANGED lastTable
           ELSE IF q.select
           THEN /\ results' =
                      IF q.table = ""
                      THEN SetTableContext(SetData(results, QueryColumns, QueryRows), "", <<>>)
                      ELSE SetTableContext(
                               SetData(results, ResultColumns(q), TableRows(q.table)),
                               q.table,
                               IF c.sub = "" THEN GetPrimaryKeys(q.table) ELSE <<>>)
                /\ lastTable' = IF q.table # "" THEN q.table ELSE lastTable
                /\ cmds' = Unshared(cmds \ {c})
           ELSE IF q.ddl # ""
           THEN /\ cmds' = (cmds \ {c}) \cup {refreshAfterDDL(FreeId(cmds \ {c}), q.ddl, q.create)}
                /\ UNCHANGED <<results, lastTable>>
           ELSE IF table # ""
           THEN /\ lastTable' = table
                /\ cmds' = (cmds \ {c}) \cup {loadTable(FreeId(cmds \ {c}), table)}
                /\ UNCHANGED results
           ELSE /\ cmds' = cmds \ {c}
                /\ UNCHANGED <<results, lastTable>>
    /\ UNCHANGED <<ct, sql, activePane, confirmClearEdits, panicked, db, folds, sidebar,
                   editor, scriptsModal, conn>>

\* Update on ddlRefreshMsg.
DDLRefreshMsg(c) ==
    /\ c.kind = "refreshAfterDDL"
    /\ c.pc = "done"
    /\ lastOp' = NoOp
    /\ IF c.err = "" /\ c.loadTable /\ c.sub = ""
       THEN /\ lastTable' = c.tableName
            /\ results' = ShowTableData(results, c.tableName, "")
            /\ cmds' = Unshared(cmds \ {c})
       ELSE /\ cmds' = cmds \ {c}
            /\ UNCHANGED <<lastTable, results>>
    /\ UNCHANGED <<ct, sql, activePane, confirmClearEdits, panicked, db, folds, sidebar,
                   editor, scriptsModal, conn>>

\* Update on the result message of command id, commitResultMsg apart.
OpsDeliver(id) ==
    /\ ~panicked
    /\ \E c \in cmds :
        /\ c.id = id
        /\ \/ TableDataDelivered(c)
           \/ ReconnectDelivered(c)
           \/ SwitchDBDelivered(c)
           \/ CopyDBResultMsg(c)
           \/ DropDBResultMsg(c)
           \/ QueryResultMsg(c)
           \/ DDLRefreshMsg(c)

(***************************************************************************)
(* Overlapping operations: the user starts operations while others are in  *)
(* flight, and the goroutines and the event loop interleave freely.        *)
(***************************************************************************)
OpsNext ==
    \/ CycleFocus
    \/ SelectTable(AllTableNames, MaxOverlap)
    \/ ReconnectKey(MaxOverlap)
    \/ SelectDatabase({StartDatabase}, MaxOverlap)
    \/ RunQuery(Queries, MaxOverlap)
    \/ CopyDB({StartDatabase}, MaxOverlap)
    \/ DropDB({StartDatabase}, MaxOverlap)
    \/ \E id \in CmdIds : OpCall(id) \/ OpReturn(id) \/ OpsDeliver(id)

SpecOps == Init /\ [][OpsNext]_vars

(***************************************************************************)
(* Delivery: every operation the session dispatches, the commit of staged  *)
(* deletes included.  The goroutine of a command is scheduled, the driver  *)
(* call it is in returns, and the event loop handles the message it is     *)
(* sent: weak fairness of the steps of each command.                       *)
(***************************************************************************)
DeliverIds == 0..MaxInFlight - 1

\* The user marks rows for deletion in the Results pane.
DeleteKey == PaneKey({"d"}, {})

RunCommitOf(id) == ~panicked /\ \E c \in Folding(cmds) : c.id = id /\ RunCommit(c)

CommitDelivered(id) == ~panicked /\ \E c \in cmds : c.id = id /\ HandleCommitResult(c)

CommandStep(id) == OpCall(id) \/ OpReturn(id) \/ RunCommitOf(id)

Deliver(id) == OpsDeliver(id) \/ CommitDelivered(id)

DeliverNext ==
    \/ CycleFocus
    \/ TableSelectedAny
    \/ CtrlR
    \/ SelectDatabase(DatabaseNames, MaxInFlight)
    \/ RunQuery(Queries, MaxInFlight)
    \/ CopyDB(DatabaseNames, MaxInFlight)
    \/ DropDB(DatabaseNames, MaxInFlight)
    \/ DeleteKey
    \/ CtrlS
    \/ \E id \in DeliverIds : CommandStep(id) \/ Deliver(id)

SpecDeliver ==
    /\ Init
    /\ [][DeliverNext]_vars
    /\ \A id \in DeliverIds : WF_vars(CommandStep(id)) /\ WF_vars(Deliver(id))

(***************************************************************************)
(* Table loads and database switches that overlap: the user selects tables *)
(* and databases in the sidebar while earlier operations are in flight.    *)
(***************************************************************************)
SwitchNext ==
    \/ CycleFocus
    \/ SelectTable(TableNames, MaxOverlap)
    \/ SelectDatabase(DatabaseNames, MaxOverlap)
    \/ \E id \in CmdIds : OpCall(id) \/ OpReturn(id) \/ OpsDeliver(id)

SpecSwitch == Init /\ [][SwitchNext]_vars

(***************************************************************************)
(* Free-form queries: the user runs row-returning statements from the      *)
(* editor and edits and deletes rows of their results in the Results pane. *)
(***************************************************************************)
QueryNext ==
    \/ ResultsKey
    \/ CycleFocus
    \/ RunQuery(SelectQueries, MaxInFlight)
    \/ \E id \in DeliverIds : OpCall(id) \/ OpReturn(id) \/ OpsDeliver(id)

SpecQuery == Init /\ [][QueryNext]_vars

(***************************************************************************)
(* Repeated commit requests: the user edits cells of a loaded table and    *)
(* presses ctrl+s again while an earlier commit is in flight.  No key of   *)
(* this session removes an entry from the ledger; only Update on a         *)
(* successful commitResultMsg does.                                        *)
(***************************************************************************)
\* "e" on a cell, a character typed into the edit buffer, and enter.
EditCellKey == PaneKey({"e"}, {"z", "enter"})

CommitNext ==
    \/ EditCellKey
    \/ CycleFocus
    \/ TableSelected
    \/ TableDataMsg
    \/ CommitKey(MaxOverlap)
    \/ RunCommitChanges
    \/ CommitResultMsg

SpecCommit == Init /\ [][CommitNext]_vars

(***************************************************************************)
(* The SQL text functions of highlight.go.  A text is the sequence of its  *)
(* bytes, each a string of one character; Go's index i is position i + 1.  *)
(***************************************************************************)
\* sql[i]
At(s, i) == s[i + 1]

\* sql[a:b]
Slice(s, a, b) == SubSeq(s, a + 1, b)

LowerLetters ==
    <<"a", "b", "c", "d", "e", "f", "g", "h", "i", "j", "k", "l", "m",
      "n", "o", "p", "q", "r", "s", "t", "u", "v", "w", "x", "y", "z">>

UpperLetters ==
    <<"A", "B", "C", "D", "E", "F", "G", "H", "I", "J", "K", "L", "M",
      "N", "O", "P", "Q", "R", "S", "T", "U", "V", "W", "X", "Y", "Z">>

IsLetter(ch) == \E k \in 1..26 : ch = LowerLetters[k] \/ ch = UpperLetters[k]

IsDigit(ch) == ch \in {"0", "1", "2", "3", "4", "5", "6", "7", "8", "9"}

\* The start of an identifier, and \w of the regular expressions.
IsWordStart(ch) == IsLetter(ch) \/ ch = "_"

IsWordChar(ch) == IsLetter(ch) \/ IsDigit(ch) \/ ch = "_"

\* The characters FormatSQL takes for white space.
IsBlank(ch) == ch \in {" ", "\t", "\n", "\r"}

\* The characters FormatSQL makes a segment of its own.
IsPunct(ch) == ch \in {"(", ")", ",", ";", ".", "*"}

\* unicode.IsSpace, for the characters a text of the model can hold.
IsSpace(ch) == ch \in {" ", "\t", "\n", "\r", "\f"}

ToUpperChar(ch) ==
    IF \E k \in 1..26 : ch = LowerLetters[k]
    THEN UpperLetters[CHOOSE k \in 1..26 : ch = LowerLetters[k]]
    ELSE ch

\* strings.ToUpper
ToUpper(s) == [k \in 1..Len(s) |-> ToUpperChar(s[k])]

\* The Go string of a text, to compare with the words of the tables.
RECURSIVE Str(_)
Str(s) == IF s = <<>> THEN "" ELSE Head(s) \o Str(Tail(s))

sqlKeywords ==
    {"SELECT", "FROM", "WHERE", "INSERT", "INTO", "VALUES", "UPDATE", "SET",
     "DELETE", "CREATE", "TABLE", "DROP", "ALTER", "ADD", "COLUMN",
     "PRIMARY", "KEY", "FOREIGN", "REFERENCES", "INDEX", "UNIQUE",
     "NOT", "NULL", "DEFAULT", "AUTO_INCREMENT", "CONSTRAINT",
     "JOIN", "INNER", "LEFT", "RIGHT", "OUTER", "FULL", "CROSS", "ON",
     "AND", "OR", "IN", "BETWEEN", "LIKE", "IS", "AS", "DISTINCT",
     "ORDER", "BY", "GROUP", "HAVING", "LIMIT", "OFFSET",
     "UNION", "ALL", "INTERSECT", "EXCEPT",
     "CASE", "WHEN", "THEN", "ELSE", "END",
     "BEGIN", "COMMIT", "ROLLBACK", "TRANSACTION",
     "GRANT", "REVOKE", "PRIVILEGE",
     "VIEW", "TRIGGER", "PROCEDURE", "FUNCTION",
     "EXECUTE", "EXEC", "CALL",
     "IF", "EXISTS",
     "SERIAL", "BIGSERIAL", "SMALLSERIAL",
     "INT", "INTEGER", "BIGINT", "SMALLINT", "TINYINT",
     "DECIMAL", "NUMERIC", "FLOAT", "DOUBLE", "REAL",
     "CHAR", "VARCHAR", "TEXT", "BLOB",
     "DATE", "TIME", "TIMESTAMP", "DATETIME",
     "BOOLEAN", "BOOL",
     "ARRAY", "JSON", "JSONB", "UUID",
     "CASCADE", "RESTRICT", "NO", "ACTION",
     "ASC", "DESC",
     "TRUE", "FALSE",
     "WITH", "RECURSIVE",
     "RETURNING",
     "TEMP", "TEMPORARY", "UNLOGGED",
     "PARTITION", "PARTITIONED",
     "ANALYZE", "EXPLAIN", "VACUUM"}

sqlFunctions ==
    {"COUNT", "SUM", "AVG", "MIN", "MAX",
     "CONCAT", "SUBSTRING", "LENGTH", "UPPER", "LOWER", "TRIM",
     "COALESCE", "NULLIF", "CAST",
     "NOW", "CURRENT_DATE", "CURRENT_TIME", "CURRENT_TIMESTAMP",
     "EXTRACT", "DATE_PART", "TO_CHAR",
     "ROW_NUMBER", "RANK", "DENSE_RANK", "LAG", "LEAD",
     "FIRST_VALUE", "LAST_VALUE",
     "STRING_AGG", "ARRAY_AGG"}

majorClauses ==
    {"SELECT", "FROM", "WHERE", "SET", "HAVING", "RETURNING", "VALUES",
     "UNION", "INTERSECT", "EXCEPT"}

indentClauses == {"AND", "OR"}

joinKeywords == {"JOIN", "INNER", "LEFT", "RIGHT", "FULL", "CROSS", "OUTER"}

\* strings.TrimSpace
RECURSIVE TrimLeft(_)
TrimLeft(s) == IF s # <<>> /\ IsSpace(Head(s)) THEN TrimLeft(Tail(s)) ELSE s

\* strings.TrimRight(s, cutset)
RECURSIVE TrimRight(_, _)
TrimRight(s, cutset) ==
    IF s # <<>> /\ s[Len(s)] \in cutset THEN TrimRight(SubSeq(s, 1, Len(s) - 1), cutset) ELSE s

TrimSpace(s) == TrimRight(TrimLeft(s), {" ", "\t", "\n", "\r", "\f"})

\* The first index from i on whose character pred does not hold of, or
\* len(s): where a loop "for i < len(s) && pred(s[i]) { i++ }" ends.
SkipWhile(s, i, pred(_)) ==
    LET stops == {j \in i..Len(s) - 1 : ~pred(At(s, j))}
    IN  IF stops # {} THEN SetMin(stops) ELSE IF i > Len(s) THEN i ELSE Len(s)

\* The end of the string literal scanned from end on: a backslash skips two
\* bytes, so the end may lie one past the end of the text.
RECURSIVE StringEnd(_, _)
StringEnd(s, end) ==
    IF end >= Len(s) THEN end
    ELSE IF At(s, end) = "\\" THEN StringEnd(s, end + 2)
    ELSE IF At(s, end) = "'" THEN end + 1
    ELSE StringEnd(s, end + 1)

\* What ends the last kind of segment.
EndsRun(ch) == IsWordStart(ch) \/ IsBlank(ch) \/ ch = "'" \/ IsPunct(ch) \/ IsDigit(ch)

segment(text, isToken) == [text |-> text, isToken |-> isToken]

\* sql[i:end] with end beyond the text, slice bounds out of range: a token
\* without text, which the loop never makes.
OutOfRange == segment(<<>>, TRUE)

\* The segments of sql from index i on.
RECURSIVE Segments(_, _)
Segments(src, i) ==
    IF i >= Len(src) THEN <<>>
    ELSE LET ch == At(src, i)
         IN  IF ch = "-" /\ i + 1 < Len(src) /\ At(src, i + 1) = "-"
             THEN LET end == SkipWhile(src, i, LAMBDA c : c # "\n")
                  IN  <<segment(Slice(src, i, end), FALSE)>> \o Segments(src, end)
             ELSE IF ch = "'"
             THEN LET end == StringEnd(src, i + 1)
                  IN  IF end > Len(src) THEN <<OutOfRange>>
                      ELSE <<segment(Slice(src, i, end), FALSE)>> \o Segments(src, end)
             ELSE IF IsBlank(ch)
             THEN <<segment(<<" ">>, FALSE)>> \o Segments(src, SkipWhile(src, i, IsBlank))
             ELSE IF IsWordStart(ch)
             THEN LET end == SkipWhile(src, i + 1, IsWordChar)
                      word == Slice(src, i, end)
                      upper == ToUpper(word)
                  IN  <<segment(IF Str(upper) \in sqlKeywords \cup sqlFunctions
                                THEN upper ELSE word, TRUE)>> \o Segments(src, end)
             ELSE IF IsPunct(ch)
             THEN <<segment(<<ch>>, FALSE)>> \o Segments(src, i + 1)
             ELSE LET end == SkipWhile(src, i + 1, LAMBDA c : ~EndsRun(c))
                  IN  <<segment(Slice(src, i, end), FALSE)>> \o Segments(src, end)

\* The text after the segments from si on that are not " ", in upper case.
RECURSIVE Lookahead(_, _)
Lookahead(segments, j) ==
    IF j >= Len(segments) THEN ""
    ELSE IF At(segments, j).text = <<" ">> THEN Lookahead(segments, j + 1)
    ELSE Str(ToUpper(At(segments, j).text))

\* strings.Repeat("  ", indent)
Indent(indent) == [k \in 1..2 * indent |-> " "]

\* One round of the loop over the segments: st is the builder, the indent
\* and prevWasNewline before segment si.
WriteSegment(st, segments, si) ==
    LET seg == At(segments, si)
        upper == Str(ToUpper(seg.text))
        isJoinLine ==
            /\ upper \in joinKeywords
            /\ upper = "JOIN" \/ Lookahead(segments, si + 1) \in {"JOIN", "OUTER"}
        wrote(text) == [st EXCEPT !.result = st.result \o text, !.prevWasNewline = FALSE]
    IN  IF ~seg.isToken
        THEN IF seg.text = <<" ">> /\ st.prevWasNewline THEN st ELSE wrote(seg.text)
        ELSE IF upper \in {"ORDER", "GROUP", "LIMIT", "OFFSET"}
        THEN wrote(<<"\n">> \o seg.text)
        ELSE IF upper \in majorClauses /\ si > 0
        THEN [wrote(<<"\n">> \o seg.text) EXCEPT
                 !.indent = IF upper \in {"SELECT", "FROM", "WHERE", "SET", "HAVING"}
                            THEN 1 ELSE st.indent]
        ELSE IF isJoinLine
        THEN wrote(<<"\n">> \o seg.text)
        ELSE IF upper \in indentClauses
        THEN wrote(<<"\n">> \o Indent(st.indent) \o seg.text)
        ELSE wrote(seg.text)

\* The builder after all segments.
Written(segments) ==
    LET F[k \in 0..Len(segments)] ==
            IF k = 0 THEN [result |-> <<>>, indent |-> 0, prevWasNewline |-> FALSE]
            ELSE WriteSegment(F[k - 1], segments, k - 1)
    IN  F[Len(segments)].result

\* strings.Split(s, "\n")
RECURSIVE Split(_)
Split(s) ==
    LET end == SkipWhile(s, 0, LAMBDA c : c # "\n")
    IN  IF end >= Len(s) THEN <<s>>
        ELSE <<Slice(s, 0, end)>> \o Split(Slice(s, end + 1, Len(s)))

\* strings.Join(lines, "\n")
RECURSIVE Join(_)
Join(lines) ==
    IF Len(lines) = 1 THEN lines[1] ELSE lines[1] \o <<"\n">> \o Join(Tail(lines))

\* FormatSQL panics on sql.
FormatSQLPanics(src) == \E k \in DOMAIN Segments(TrimSpace(src), 0) :
                            Segments(TrimSpace(src), 0)[k] = OutOfRange

FormatSQL(src) ==
    IF TrimSpace(src) = <<>> THEN <<>>
    ELSE LET lines == Split(Written(Segments(TrimSpace(src), 0)))
             finalLines == [k \in 1..Len(lines) |-> TrimRight(lines[k], {" ", "\t"})]
         IN  TrimSpace(Join(finalLines))

\* Where a match of the regular expression of kind begins at index i, its
\* end; -1 where none does.  commentRe is --[^\n]*, stringRe
\* '(?:[^'\\]|\\.)*', numberRe \b\d+(?:\.\d+)?\b, operatorRe
\* [=<>!]+|[+\-*/], wordRe \b[A-Za-z_][A-Za-z0-9_]*\b.
RECURSIVE StringMatchEnd(_, _)
StringMatchEnd(s, j) ==
    IF j >= Len(s) THEN -1
    ELSE IF At(s, j) = "'" THEN j + 1
    ELSE IF At(s, j) = "\\"
    THEN IF j + 1 < Len(s) /\ At(s, j + 1) # "\n" THEN StringMatchEnd(s, j + 2) ELSE -1
    ELSE StringMatchEnd(s, j + 1)

\* \b at index i of s.
WordBoundary(s, i) ==
    LET before == i > 0 /\ IsWordChar(At(s, i - 1))
        after == i < Len(s) /\ IsWordChar(At(s, i))
    IN  before # after

NumberMatchEnd(s, i) ==
    LET e == SkipWhile(s, i, IsDigit)
        f == IF e + 1 < Len(s) /\ At(s, e) = "." /\ IsDigit(At(s, e + 1))
             THEN SkipWhile(s, e + 1, IsDigit) ELSE -1
    IN  IF ~IsDigit(At(s, i)) \/ ~WordBoundary(s, i) THEN -1
        ELSE IF f >= 0 /\ WordBoundary(s, f) THEN f
        ELSE IF WordBoundary(s, e) THEN e
        ELSE -1

MatchEnd(kind, s, i) ==
    CASE kind = "comment" ->
            IF At(s, i) = "-" /\ i + 1 < Len(s) /\ At(s, i + 1) = "-"
            THEN SkipWhile(s, i, LAMBDA c : c # "\n") ELSE -1
      [] kind = "string" -> IF At(s, i) = "'" THEN StringMatchEnd(s, i + 1) ELSE -1
      [] kind = "number" -> NumberMatchEnd(s, i)
      [] kind = "operator" ->
            IF At(s, i) \in {"=", "<", ">", "!"}
            THEN SkipWhile(s, i, LAMBDA c : c \in {"=", "<", ">", "!"})
            ELSE IF At(s, i) \in {"+", "-", "*", "/"} THEN i + 1 ELSE -1
      [] kind = "word" ->
            IF IsWordStart(At(s, i)) /\ WordBoundary(s, i)
            THEN SkipWhile(s, i, IsWordChar) ELSE -1

\* re.FindAllStringIndex(sql, -1) from index pos on: the leftmost match, then
\* the matches after its end.
RECURSIVE FindAllStringIndex(_, _, _)
FindAllStringIndex(kind, s, pos) ==
    IF pos >= Len(s) THEN <<>>
    ELSE LET end == MatchEnd(kind, s, pos)
         IN  IF end < 0 THEN FindAllStringIndex(kind, s, pos + 1)
             ELSE <<[Start |-> pos, End |-> end]>> \o FindAllStringIndex(kind, s, end)

Token(match, style) == [Start |-> match.Start, End |-> match.End, Style |-> style]

Styled(matches, style) == [k \in 1..Len(matches) |-> Token(matches[k], style)]

\* The style of a word: a keyword, a function, or none.
WordStyle(src, match) ==
    LET upperWord == Str(ToUpper(Slice(src, match.Start, match.End)))
    IN  IF upperWord \in sqlKeywords THEN "KeywordStyle"
        ELSE IF upperWord \in sqlFunctions THEN "FunctionStyle"
        ELSE ""

\* The candidate spans, in the order HighlightSQL appends them.
Tokens(src) ==
    LET words == FindAllStringIndex("word", src, 0)
        styled == [k \in 1..Len(words) |-> Token(words[k], WordStyle(src, words[k]))]
    IN  Styled(FindAllStringIndex("comment", src, 0), "CommentStyle")
        \o Styled(FindAllStringIndex("string", src, 0), "StringStyle")
        \o Styled(FindAllStringIndex("number", src, 0), "NumberStyle")
        \o Styled(FindAllStringIndex("operator", src, 0), "OperatorStyle")
        \o SelectSeq(styled, LAMBDA t : t.Style # "")

Overlap(x, y) == x.Start < y.End /\ y.Start < x.End

\* Of the overlapping x and y, y is the one the loop keeps when x comes
\* before y in tokens.
SecondWins(x, y) == y.Start < x.Start \/ (y.Start = x.Start /\ y.End > x.End)

\* No token is marked.
OverlappingNever(tokens, k) == FALSE

\* overlapping[k - 1] after the two loops over the pairs.
Overlapping(tokens, k) ==
    \/ \E j \in k + 1..Len(tokens) : Overlap(tokens[k], tokens[j]) /\ SecondWins(tokens[k], tokens[j])
    \/ \E i \in 1..k - 1 : Overlap(tokens[i], tokens[k]) /\ ~SecondWins(tokens[i], tokens[k])

\* filtered before it is sorted.
Unmarked(tokens) ==
    LET F[k \in 0..Len(tokens)] ==
            IF k = 0 THEN <<>>
            ELSE IF Overlapping(tokens, k) THEN F[k - 1] ELSE Append(F[k - 1], tokens[k])
    IN  F[Len(tokens)]

\* The loops "for i ...; for j := i + 1 ...: if filtered[i].Start >
\* filtered[j].Start swap" from the round (i, j) on.
RECURSIVE SortFrom(_, _, _)
SortFrom(f, i, j) ==
    IF i >= Len(f) - 1 THEN f
    ELSE IF j >= Len(f) THEN SortFrom(f, i + 1, i + 2)
    ELSE IF At(f, i).Start > At(f, j).Start
    THEN SortFrom([f EXCEPT ![i + 1] = At(f, j), ![j + 1] = At(f, i)], i, j + 1)
    ELSE SortFrom(f, i, j + 1)

\* The spans HighlightSQL renders, in the order it renders them.
Filtered(src) == SortFrom(Unmarked(Tokens(src)), 0, 1)

Piece(text, style) == [text |-> text, style |-> style]

\* The loop over filtered: what is written, and pos.
Rendered(src, filtered) ==
    LET F[k \in 0..Len(filtered)] ==
            IF k = 0 THEN [result |-> <<>>, pos |-> 0]
            ELSE LET tok == filtered[k]
                     r == F[k - 1]
                     plain == IF tok.Start > r.pos
                              THEN <<Piece(Slice(src, r.pos, tok.Start), "")>> ELSE <<>>
                 IN  [result |-> r.result \o plain
                                 \o <<Piece(Slice(src, tok.Start, tok.End), tok.Style)>>,
                      pos |-> tok.End]
        last == F[Len(filtered)]
    IN  IF last.pos < Len(src)
        THEN last.result \o <<Piece(Slice(src, last.pos, Len(src)), "")>>
        ELSE last.result

\* The highlighted text: the pieces written, each with the style it is
\* rendered in ("" for none).
HighlightSQL(src) ==
    IF TrimSpace(src) = <<>> \/ Tokens(src) = <<>> THEN <<Piece(src, "")>>
    ELSE Rendered(src, Filtered(src))

\* The text of a highlighted text without its styles.
RECURSIVE Plain(_)
Plain(pieces) == IF pieces = <<>> THEN <<>> ELSE Head(pieces).text \o Plain(Tail(pieces))

(***************************************************************************)
(* The text functions applied: the user has moved to the editor and typed  *)
(* or pasted a text; ctrl+e formats it in place, and View highlights it.   *)
(* value is the text of the textarea, view the highlighted text of the     *)
(* last frame.  The sessions above leave the text out and take what the    *)
(* statement is from Queries.                                              *)
(***************************************************************************)
\* The characters of the texts: a comment and an operator begin with "-", a
\* string with "'", and the words are o, r, or and longer ones.
Chars == {"-", "'", "\n", "o", "r"}

\* Longest text formatted.
MaxText == 6

\* Longest text highlighted; its characters include 1, which makes numbers.
MaxLine == 5

\* The texts of at most n characters of cs.
Texts(cs, n) == UNION {[1..k -> cs] : k \in 0..n}

TextInit(texts) ==
    /\ ct = NewChangeTracker
    /\ lastOp = NoOp
    /\ sql = NoSQL
    /\ results = NewResultsModel
    /\ activePane = EditorPane
    /\ lastTable = ""
    /\ confirmClearEdits = FALSE
    /\ panicked = FALSE
    /\ cmds = {}
    /\ db = <<>>
    /\ folds = <<>>
    /\ sidebar = [NewSidebarModel EXCEPT !.focused = FALSE]
    /\ scriptsModal = NewScriptsModalModel
    /\ conn = Connect
    /\ \E text \in texts : editor = [focused |-> TRUE, ghost |-> FALSE, value |-> text, view |-> <<>>]

\* ctrl+e in the focused editor: the text is replaced by FormatSQL of it.
\* The ExecuteQueryMsg the key sends is RunQuery's.
FormatKey ==
    /\ ~panicked
    /\ ~scriptsModal.visible
    /\ ~confirmClearEdits
    /\ activePane = EditorPane
    /\ TrimSpace(editor.value) # <<>>
    /\ IF FormatSQLPanics(editor.value)
       THEN Panic
       ELSE /\ editor' = [editor EXCEPT !.value = FormatSQL(TrimSpace(editor.value)),
                                        !.ghost = FALSE]
            /\ lastOp' = [op |-> "FormatSQL", n |-> 0]
            /\ UNCHANGED <<ct, sql, results, activePane, lastTable, confirmClearEdits, panicked,
                           cmds, db, folds, sidebar, scriptsModal, conn>>

\* View: the text highlighted, taken as one line.
ViewText ==
    /\ ~panicked
    /\ editor' = [editor EXCEPT !.view = HighlightSQL(editor.value)]
    /\ lastOp' = [op |-> "HighlightSQL", n |-> 0]
    /\ UNCHANGED <<ct, sql, results, activePane, lastTable, confirmClearEdits, panicked,
                   cmds, db, folds, sidebar, scriptsModal, conn>>

\* The texts formatted have the backslash too, which the scan of a string
\* literal skips together with the byte after it.
FormatInit == TextInit(Texts(Chars \cup {"\\"}, MaxText))

SpecFormat == FormatInit /\ [][FormatKey]_vars

HighlightInit == TextInit(Texts(Chars \cup {"1"}, MaxLine))

SpecHighlight == HighlightInit /\ [][ViewText]_vars

(***************************************************************************)
(* Properties of the ledger.                                               *)
(***************************************************************************)
\* Row identity as the data model defines it: same table, same column set,
\* equal values.
SameRow(x, y) == x.TableName = y.TableName /\ x.RowPKValues = y.RowPKValues

SameCell(x, y) == SameRow(x, y) /\ x.ColumnName = y.ColumnName

CellEdits(t, e) == {i \in 1..Len(t.Edits) : SameCell(t.Edits[i], e)}

RowDeletes(t, d) == {i \in 1..Len(t.Deletes) : SameRow(t.Deletes[i], d)}

\* s without the entries that carry uid u.
Without(s, u) == SelectSeq(s, LAMBDA x : x.uid # u)

\* C4: after any sequence of ledger operations the ledger holds at most one
\* PendingEdit per (table, rowKey, column), and a StageEdit for a cell that
\* already has an entry leaves that single entry with the new value.
C4_EditCoalescing ==
    /\ \A i, j \in 1..Len(ct.Edits) : i # j => ~SameCell(ct.Edits[i], ct.Edits[j])
    /\ \A e \in EditArgs :
          CellEdits(ct, e) # {} =>
              LET after == StageEdit(ct, e)
              IN  /\ Cardinality(CellEdits(after, e)) = 1
                  /\ \A i \in CellEdits(after, e) : after.Edits[i].NewValue = e.NewValue
                  /\ Len(after.Edits) = Len(ct.Edits)

\* A StageEdit that overwrote an already-staged cell has acted, next to another edit.
C4_Witness ==
    /\ lastOp.op = "StageEdit"
    /\ PendingCount(ct) = lastOp.n
    /\ Len(ct.Edits) >= 2
    /\ \E i \in 1..Len(ct.Edits) : ct.Edits[i].NewValue = NULL

C6_UndoRemovesItsEntry ==
    ct.undoStack # <<>> =>
        LET top == ct.undoStack[Len(ct.undoStack)]
            after == Undo(ct)
        IN  /\ after.undoStack = SubSeq(ct.undoStack, 1, Len(ct.undoStack) - 1)
            /\ top.uid \in EntryUids(ct)
            /\ after.Edits = Without(ct.Edits, top.uid)
            /\ after.Deletes = Without(ct.Deletes, top.uid)
            /\ after.Inserts = Without(ct.Inserts, top.uid)

\* C7: UnstageDelete removes the PendingDelete it matches together with the
\* undo entry pushed when that delete was staged, and nothing else; without
\* a match it changes nothing.
C7_UnstageDeleteFrame ==
    \A d \in DeleteArgs :
        LET hits == DeleteHits(ct, d.TableName, d.RowPKValues)
            after == UnstageDelete(ct, d.TableName, d.RowPKValues)
        IN  IF hits = {}
            THEN after = ct
            ELSE LET gone == ct.Deletes[SetMin(hits)].uid
                 IN  /\ after.Deletes = Without(ct.Deletes, gone)
                     /\ after.undoStack = Without(ct.undoStack, gone)
                     /\ after.Edits = ct.Edits
                     /\ after.Inserts = ct.Inserts

\* The delete StageDelete has just appended, and where the ledger held that row before.
LastDelete == ct.Deletes[Len(ct.Deletes)]

HitsBeforeLast == DeleteHits(ct, LastDelete.TableName, LastDelete.RowPKValues) \ {Len(ct.Deletes)}

Toggled == UnstageDelete(ct, LastDelete.TableName, LastDelete.RowPKValues)

ToggledOff ==
    /\ RowDeletes(Toggled, LastDelete) = {}
    /\ ~IsRowDeleted(Toggled, LastDelete.TableName, LastDelete.RowPKValues)
    /\ (Len(ct.Deletes) = 1 => Len(Toggled.Deletes) = 0)

\* C8 as claimed: StageDelete(d) followed by UnstageDelete(d.table, d.rowKey)
\* leaves no PendingDelete for the row and IsRowDeleted false, whatever the
\* ledger held before.
C8_DeleteToggleAnyLedger == lastOp.op = "StageDelete" => ToggledOff

\* C8 amended: the same, for a row that IsRowDeleted reported as not deleted
\* when StageDelete was called.
C8_DeleteToggle == (lastOp.op = "StageDelete" /\ HitsBeforeLast = {}) => ToggledOff

\* StageDelete has acted on a row not yet deleted, in a ledger holding another delete.
C8_Witness == lastOp.op = "StageDelete" /\ HitsBeforeLast = {} /\ Len(ct.Deletes) = 2

\* The row keys that the ledger holds and that its operations are called with.
LedgerKeys ==
    {ct.Edits[i].RowPKValues : i \in 1..Len(ct.Edits)} \cup
    {ct.Deletes[i].RowPKValues : i \in 1..Len(ct.Deletes)}

ArgKeys == {e.RowPKValues : e \in EditArgs} \cup {d.RowPKValues : d \in DeleteArgs}

\* C14: pkMatch reports a stored row key and a given row key equal exactly
\* when they have the same columns and equal values for every column, and it
\* gives the same answer with its arguments exchanged.
C14_PkMatchIsEquality ==
    \A x \in LedgerKeys, y \in ArgKeys :
        /\ pkMatch(x, y) <=> (x = y)
        /\ pkMatch(x, y) <=> pkMatch(y, x)

(***************************************************************************)
(* Properties of GenerateSQL.                                              *)
(***************************************************************************)
IsInsertOf(q, a, ins) == \E o \in ColOrders : [text |-> q, args |-> a] = InsertSQL(ins, o)

IsUpdateOf(q, a, edit) == \E o \in ColOrders : [text |-> q, args |-> a] = UpdateSQL(edit, o)

IsDeleteOf(q, a, del) == \E o \in ColOrders : [text |-> q, args |-> a] = DeleteSQL(del, o)

\* sql holds one statement per element of ins, then of upd, then of del, each
\* the statement of the element at the same position.
InOrder(ins, upd, del) ==
    LET q == sql.queries
        a == sql.allArgs
    IN  /\ Len(q) = Len(ins) + Len(upd) + Len(del)
        /\ Len(a) = Len(q)
        /\ \A i \in 1..Len(ins) : IsInsertOf(q[i], a[i], ins[i])
        /\ \A i \in 1..Len(upd) : IsUpdateOf(q[Len(ins) + i], a[Len(ins) + i], upd[i])
        /\ \A i \in 1..Len(del) :
              IsDeleteOf(q[Len(ins) + Len(upd) + i], a[Len(ins) + Len(upd) + i], del[i])

KeptInserts == Len(SelectSeq(ct.Inserts, LAMBDA ins : DOMAIN ins.Values # {}))

UpdateAt(j) == [text |-> sql.queries[KeptInserts + j], args |-> sql.allArgs[KeptInserts + j]]

DeleteAt(j) ==
    [text |-> sql.queries[KeptInserts + Len(ct.Edits) + j],
     args |-> sql.allArgs[KeptInserts + Len(ct.Edits) + j]]

NonNullKeys(pk) == {k \in DOMAIN pk : pk[k] # NULL}

\* The WHERE clause of statement s names every column of pk once, with IS NULL
\* exactly for the columns whose value is the NULL sentinel and, for every
\* other column, a parameter of its own (numbered from first) bound to the value.
KeyPredicates(s, pk, first) ==
    LET w == s.text.where
    IN  /\ Len(w) = Cardinality(DOMAIN pk)
        /\ {w[i].col : i \in 1..Len(w)} = DOMAIN pk
        /\ \A i \in 1..Len(w) : (w[i].ph = 0) <=> (pk[w[i].col] = NULL)
        /\ \A i, k \in 1..Len(w) : (i # k /\ w[i].ph # 0) => w[i].ph # w[k].ph
        /\ \A i \in 1..Len(w) :
              w[i].ph # 0 => /\ w[i].ph \in first..Len(s.args)
                             /\ s.args[w[i].ph] = pk[w[i].col]
        /\ Len(s.args) = first - 1 + Cardinality(NonNullKeys(pk))

\* C11: an edit whose NewValue is the NULL sentinel yields an UPDATE with the
\* literal "= NULL" in SET and no parameter for the new value (any other new
\* value is bound as $1); in UPDATE and DELETE every key column holding the
\* NULL sentinel yields IS NULL and no parameter, every other key column one
\* bound parameter.
C11_NullHandling ==
    lastOp.op = "GenerateSQL" =>
        /\ \A j \in 1..Len(ct.Edits) :
              LET e == ct.Edits[j]
                  s == UpdateAt(j)
              IN  /\ s.text.kind = "UPDATE"
                  /\ IF e.NewValue = NULL
                     THEN s.text.phs = <<0>> /\ KeyPredicates(s, e.RowPKValues, 1)
                     ELSE /\ s.text.phs = <<1>>
                          /\ s.args[1] = e.NewValue
                          /\ KeyPredicates(s, e.RowPKValues, 2)
        /\ \A j \in 1..Len(ct.Deletes) :
              /\ DeleteAt(j).text.kind = "DELETE"
              /\ KeyPredicates(DeleteAt(j), ct.Deletes[j].RowPKValues, 1)

\* GenerateSQL has run on a ledger holding an edit to NULL and a delete of a
\* row whose key has a NULL column next to a column with a value.
C11_Witness ==
    /\ lastOp.op = "GenerateSQL"
    /\ \E j \in 1..Len(ct.Edits) : ct.Edits[j].NewValue = NULL /\ UpdateAt(j).text.phs = <<0>>
    /\ \E j \in 1..Len(ct.Deletes) :
          /\ \E k \in DOMAIN ct.Deletes[j].RowPKValues : ct.Deletes[j].RowPKValues[k] = NULL
          /\ NonNullKeys(ct.Deletes[j].RowPKValues) # {}
          /\ Len(DeleteAt(j).args) = 1

\* The insert statement at position j, and the PendingInsert it was made of.
InsertAt(j) == [text |-> sql.queries[j], args |-> sql.allArgs[j]]

KeptInsert(j) == SelectSeq(ct.Inserts, LAMBDA ins : DOMAIN ins.Values # {})[j]

\* The places of statement s where a value stands, in order of appearance:
\* the columns of the VALUES list or of SET, then the WHERE predicates, each
\* with its placeholder (0 for a literal NULL or IS NULL).
Slots(s) ==
    [k \in 1..Len(s.text.cols) |-> [col |-> s.text.cols[k], ph |-> s.text.phs[k], key |-> FALSE]]
    \o [k \in 1..Len(s.text.where) |->
            [col |-> s.text.where[k].col, ph |-> s.text.where[k].ph, key |-> TRUE]]

BoundSlots(s) == SelectSeq(Slots(s), LAMBDA x : x.ph # 0)

\* The placeholders of s are $1..$n in order of appearance, n is the number
\* of its parameters, and parameter i is the value val gives to the column
\* placeholder i is attached to.
Numbered(s, val(_)) ==
    /\ Len(BoundSlots(s)) = Len(s.args)
    /\ \A i \in 1..Len(s.args) :
          BoundSlots(s)[i].ph = i /\ s.args[i] = val(BoundSlots(s)[i])

\* C36: in every statement GenerateSQL produces the positional placeholders
\* are numbered $1..$n consecutively in order of appearance, n is the length
\* of the statement's parameters, and the i-th parameter is the value of the
\* column the i-th placeholder is attached to, whichever values are the NULL
\* sentinel.
C36_PlaceholdersNumbered ==
    lastOp.op = "GenerateSQL" =>
        /\ \A j \in 1..KeptInserts :
              LET val(x) == KeptInsert(j).Values[x.col]
              IN  Numbered(InsertAt(j), val)
        /\ \A j \in 1..Len(ct.Edits) :
              LET val(x) == IF x.key THEN ct.Edits[j].RowPKValues[x.col]
                            ELSE ct.Edits[j].NewValue
              IN  Numbered(UpdateAt(j), val)
        /\ \A j \in 1..Len(ct.Deletes) :
              LET val(x) == ct.Deletes[j].RowPKValues[x.col]
              IN  Numbered(DeleteAt(j), val)

\* GenerateSQL has made an UPDATE with two parameters and an IS NULL between
\* them, and an INSERT with a literal NULL and one parameter.
C36_Witness ==
    /\ lastOp.op = "GenerateSQL"
    /\ \E j \in 1..Len(ct.Edits) :
          /\ Len(UpdateAt(j).args) = 2
          /\ UpdateAt(j).text.where[1].ph = 0
          /\ UpdateAt(j).text.where[2].ph = 2
    /\ \E j \in 1..KeptInserts :
          Len(InsertAt(j).args) = 1 /\ 0 \in Range(InsertAt(j).text.phs)

\* C20: GenerateSQL is deterministic: a second invocation on the same ledger
\* returns the same sequence of statement texts and the same parameters as
\* the invocation that has just returned.
C20_Deterministic ==
    lastOp.op = "GenerateSQL" => \A ords \in OrdsFor(ct) : GenerateSQL(ct, ords) = sql

(***************************************************************************)
(* Properties of the commit protocol and of the Results pane.              *)
(***************************************************************************)
CommitCmds == {c \in cmds : c.kind = "commitChanges"}

\* The transactions in the database that the command numbered id committed.
Applied(id) == SelectSeq(db, LAMBDA e : e.id = id)

\* C1: a commit is all or nothing.  A commitChanges command that returns an
\* error (Begin, an Exec or Commit failed) has left nothing in the database;
\* the database holds a transaction of a command only if the command returned
\* success, and then the transaction holds every statement the command
\* generated (count of them); a command that has not returned has changed
\* nothing.
C1_CommitAtomic ==
    /\ \A j \in 1..Len(db) : \E c \in CommitCmds : c.id = db[j].id
    /\ \A c \in CommitCmds :
        /\ c.pc # "done" => Applied(c.id) = <<>>
        /\ c.err # "" => Applied(c.id) = <<>>
        /\ c.pc = "done" /\ c.err = "" /\ c.count > 0 => Len(Applied(c.id)) = 1
        /\ \A j \in 1..Len(Applied(c.id)) :
               c.err = "" /\ c.committed /\ Len(Applied(c.id)[j].tx) = c.count

\* A commit of two statements whose second Exec failed after the first had
\* succeeded, and the database shows none of it.
C1_Witness ==
    \E c \in CommitCmds :
        c.pc = "done" /\ c.err = "exec" /\ c.i = 1 /\ Applied(c.id) = <<>>

\* C2: a commit operation that ends with an error has not changed the ledger:
\* it has added no entry to it.
C2_FailedCommitLeavesLedger ==
    \A c \in CommitCmds : c.pc = "done" /\ c.err # "" => c.staged = 0

\* C3: a locally inserted row of the Results pane is appended to the ledger at
\* most once, whatever the commits do (fail and be retried, succeed).
C3_FoldedOnce == \A k \in 1..Len(folds) : folds[k] <= 1

\* C9: after any sequence of Results-pane keys and result messages the ledger
\* holds at most one PendingDelete for a (table, row key).
C9_OneDeletePerRow ==
    \A i, j \in 1..Len(ct.Deletes) :
        i # j => ~SameRow(ct.Deletes[i], ct.Deletes[j])

\* "d" pressed on a row that was staged for deletion has unstaged it, while the
\* delete of another row stays.
C9_Witness == lastOp.op = "UnstageDelete" /\ Len(ct.Deletes) = 1
\* C15: no event crashes the session: handling a key or a result message never
\* indexes outside the current rows or columns.
C15_NoCrash == ~panicked
\* A step of the commitChanges command, which runs off the event loop: the
\* command goes from dispatched to returned.
CommitCommandStep ==
    \E c \in Folding(cmds), d \in cmds' :
        d.id = c.id /\ d.kind = "commitChanges" /\ d.pc = "done"

\* C16: the ledger is written only while the event loop handles a message: no
\* step of a dispatched command stages entries into it.
C16_LedgerOnlyInEventLoop == [][CommitCommandStep => ct' = ct]_vars
\* C12: the ledger is empty (no edits, deletes, inserts or undo entries)
\* right after Update has handled a successful commit result, a confirmed
\* discard of all changes, a successful database switch result or a
\* successful reconnect result.
C12_LedgerEmptyAfter ==
    lastOp.op \in {"commit ok", "discard", "switch ok", "reconnect ok"} =>
        /\ ct.Edits = <<>> /\ ct.Deletes = <<>> /\ ct.Inserts = <<>> /\ ct.undoStack = <<>>
        /\ ~HasChanges(ct)

\* A successful reconnect result has been handled with two entries staged.
C12_Witness == lastOp.op = "reconnect ok" /\ lastOp.n = 2
\* The staged edits and deletes, without the history fields.
StagedEdits(t) ==
    {[TableName |-> e.TableName, RowPKValues |-> e.RowPKValues,
      ColumnName |-> e.ColumnName, NewValue |-> e.NewValue] : e \in Range(t.Edits)}

StagedDeletes(t) ==
    {[TableName |-> d.TableName, RowPKValues |-> d.RowPKValues] : d \in Range(t.Deletes)}

\* C13: a table without primary key is read-only: while the table context of
\* the Results pane has an empty primary-key list, no event stages a
\* PendingEdit or a PendingDelete.
C13_NoPkReadOnly ==
    [][Len(results.primaryKeys) = 0 =>
          /\ StagedEdits(ct') \subseteq StagedEdits(ct)
          /\ StagedDeletes(ct') \subseteq StagedDeletes(ct)]_vars

(***************************************************************************)
(* Properties of the dispatched operations.                                *)
(***************************************************************************)
InDriverCall == {c \in cmds : c.pc = "call"}

\* C17: at any time at most one dispatched operation is inside a driver call
\* on the connection of the session, whatever the user does.
C17_OneOpOnConnection == Cardinality(InDriverCall) <= 1

\* A tableDataMsg was handled in the last Update call, and the load it comes
\* from was in flight when the Update call before handled another one.
SecondOfOverlappingLoads == lastOp.op = "tableDataMsg" /\ lastOp.follows

PaneShows(tableName) ==
    /\ results.tableName = tableName
    /\ results.primaryKeys = GetPrimaryKeys(tableName)
    /\ results.columns = TableColumns(tableName)
    /\ results.rows = TableRows(tableName)

OpKinds ==
    {"loadTable", "executeQuery", "commitChanges", "reconnect", "switchDatabase",
     "copyDatabase", "dropDatabase", "refreshAfterDDL"}

InFlight(id, kind) == \E c \in cmds : c.id = id /\ c.kind = kind

\* A command leaves the commands in flight only from "done", by the handling
\* of the one message it returned.
LeavesWhenDelivered ==
    \A c \in cmds : ~(\E d \in cmds' : d.id = c.id /\ d.kind = c.kind) => c.pc = "done"

\* C18: every dispatched operation returns one result message and the event
\* loop handles it, on the success path and on every failure path, when each
\* driver call returns.
C18_EveryOpDelivers ==
    /\ \A id \in DeliverIds, kind \in OpKinds : InFlight(id, kind) ~> ~InFlight(id, kind)
    /\ [][LeavesWhenDelivered]_vars

\* A database switch whose last driver call failed has returned its message.
C18_Witness ==
    \E c \in cmds : c.kind = "switchDatabase" /\ c.pc = "done" /\ c.err = "ListDatabases"


(***************************************************************************)
(* Frame of StageEdit.                                                     *)
(***************************************************************************)
\* C30: a StageEdit that finds no staged edit of the cell appends one edit and
\* pushes exactly one OpEdit undo entry pointing at it; one that finds a staged
\* edit leaves the undo stack and the number of edits as they are; both leave
\* the deletes and the inserts alone.
C30_StageEditFrame ==
    \A e \in EditArgs :
        LET after == StageEdit(ct, e)
            hits == EditHits(ct, e.TableName, e.RowPKValues, e.ColumnName)
        IN  /\ after.Deletes = ct.Deletes
            /\ after.Inserts = ct.Inserts
            /\ IF hits = {}
               THEN /\ Len(after.Edits) = Len(ct.Edits) + 1
                    /\ Len(after.undoStack) = Len(ct.undoStack) + 1
                    /\ SubSeq(after.undoStack, 1, Len(ct.undoStack)) = ct.undoStack
                    /\ after.undoStack[Len(after.undoStack)].Type = "OpEdit"
                    /\ after.undoStack[Len(after.undoStack)].Index = Len(ct.Edits)
               ELSE /\ Len(after.Edits) = Len(ct.Edits)
                    /\ after.undoStack = ct.undoStack

\* A StageEdit has appended an edit next to a staged delete and another edit,
\* and its undo entry is on top of the stack.
C30_Witness ==
    /\ lastOp.op = "StageEdit"
    /\ PendingCount(ct) = lastOp.n + 1
    /\ Len(ct.Edits) >= 2
    /\ Len(ct.Deletes) >= 1
    /\ Len(ct.undoStack) >= 3
    /\ ct.undoStack[Len(ct.undoStack)].Type = "OpEdit"
    /\ ct.undoStack[Len(ct.undoStack)].Index = Len(ct.Edits) - 1

(***************************************************************************)
(* Discard-all.                                                            *)
(***************************************************************************)
\* The step is the handling of a key while the confirmation is open: no other
\* step closes the confirmation or ends the session while it is open.
ConfirmationKeyStep ==
    confirmClearEdits /\ (~confirmClearEdits' \/ panicked' # panicked)

Discarded ==
    /\ ct'.Edits = <<>> /\ ct'.Deletes = <<>> /\ ct'.Inserts = <<>> /\ ct'.undoStack = <<>>
    /\ results'.insertedRows = 0
    /\ results'.rows = SubSeq(results.rows, 1, Len(results.rows) - results.insertedRows)

\* C29: ctrl+x opens the confirmation only when the ledger has changes or
\* locally inserted rows exist, and changes neither; the key pressed while the
\* confirmation is open closes it and goes to no pane: it either empties the
\* ledger and removes every locally inserted row, or leaves the ledger and the
\* pane as they are.
C29_DiscardAll ==
    [][/\ (~confirmClearEdits /\ confirmClearEdits') =>
              /\ HasChanges(ct) \/ results.insertedRows > 0
              /\ ct' = ct /\ results' = results
       /\ ConfirmationKeyStep =>
              /\ ~panicked'
              /\ ~confirmClearEdits'
              /\ activePane' = activePane /\ cmds' = cmds
              /\ Discarded \/ (ct' = ct /\ results' = results)]_vars

(***************************************************************************)
(* Results of loads and switches in the pane.                              *)
(***************************************************************************)
\* The step handles the tableDataMsg of a failed load: a load leaves the
\* commands in flight, and the pane has no columns after it (a successful
\* load installs the columns of its table).
FailedLoadHandled ==
    /\ \E c \in cmds : c.kind = "loadTable" /\ ~(\E d \in cmds' : d.id = c.id)
    /\ results'.columns = <<>>

\* C25: after a failed load result is handled the pane holds no rows and no
\* columns, is not editing a cell and counts no locally inserted row, and the
\* ledger is as before.
C25_FailedLoadClearsPane ==
    [][FailedLoadHandled =>
           /\ results'.rows = <<>>
           /\ ~results'.editing
           /\ results'.insertedRows = 0
           /\ ct' = ct]_vars

\* C26: after a successful database switch result is handled the pane edits
\* neither a cell nor the cell preview, holds no rows and no locally inserted
\* rows, and no table is active.
C26_SwitchClosesEditing ==
    lastOp.op = "switch ok" =>
        /\ ~results.editing
        /\ ~results.previewEditing
        /\ results.rows = <<>>
        /\ results.insertedRows = 0
        /\ results.tableName = ""
        /\ lastTable = ""

(***************************************************************************)
(* Focus cycling.                                                          *)
(***************************************************************************)
\* The focused pane is in a modal sub-mode, or the discard-all confirmation
\* is open.
ModalSubMode ==
    \/ confirmClearEdits
    \/ activePane = ResultsPane
          /\ (results.editing \/ results.searching \/ results.previewing)
    \/ activePane = SidebarPane
          /\ (sidebar.searching \/ sidebar.copying \/ sidebar.confirmDelete)

TabMoves(forward) == TabKey(forward) /\ activePane' = cycleFocus(activePane, forward)

TabStrays(forward) == TabKey(forward) /\ activePane' # cycleFocus(activePane, forward)

\* C23 as stated: tab and shift+tab leave the active pane alone in a modal
\* sub-mode and under the confirmation, and move the focus in every other
\* state.
C23_FocusCyclingUnlessModal ==
    ~panicked =>
        \A forward \in BOOLEAN :
            IF ModalSubMode
            THEN ~ENABLED TabKey(forward)
            ELSE ENABLED TabMoves(forward)

\* C23: tab and shift+tab leave the active pane alone while the focused pane
\* is in a modal sub-mode, the discard-all confirmation is open or the scripts
\* modal is visible, and tab also while the focused editor shows a ghost
\* completion; in every other state tab moves Sidebar -> Editor -> Results ->
\* Sidebar and shift+tab the other way round, and nowhere else.
C23_FocusCycling ==
    ~panicked =>
        \A forward \in BOOLEAN :
            IF \/ ModalSubMode
               \/ scriptsModal.visible
               \/ forward /\ activePane = EditorPane /\ editor.ghost
            THEN ~ENABLED TabKey(forward)
            ELSE ENABLED TabMoves(forward) /\ ~ENABLED TabStrays(forward)

\* The focus has been moved into the Results pane past an editor that shows a
\* ghost completion, and the pane is now searching.
C23_Witness ==
    /\ activePane = ResultsPane
    /\ results.focused
    /\ results.searching
    /\ editor.ghost
    /\ ~sidebar.focused

(***************************************************************************)
(* Properties of the connection handle.                                    *)
(***************************************************************************)
\* C27: a drop of the active database switches to the administrative
\* database, drops, and reports: the DROP DATABASE is never issued over a
\* connection to the database it drops, and the result of a drop whose
\* DropDatabase installed another connection reports the administrative
\* database as the new context.
C27_DropOfActiveDatabase ==
    \A c \in cmds :
        (c.kind = "dropDatabase" /\ c.pc = "done") =>
            /\ c.issuedOn # c.name
            /\ c.switched => (c.err = "" /\ c.switchedToDB = AdminDatabase)

\* The Reconnect of a reconnect command in flight has succeeded.
Reconnected(c) == c.kind = "reconnect" /\ c.step >= 1

\* The Reconnect of a reconnect command returns without error in this step.
ReconnectSucceeds ==
    \E c \in cmds, d \in cmds' :
        /\ c.kind = "reconnect" /\ c.pc = "call" /\ c.step = 0
        /\ d.id = c.id /\ Reconnected(d)

\* Update handles the reconnectResultMsg of a successful reconnect.
ReconnectHandled ==
    \E c \in cmds : Reconnected(c) /\ c.pc = "done" /\ c.err = "" /\ c \notin cmds'

\* The commands Update dispatched in this step are a load of the active
\* table when one is selected, and none otherwise.
LoadsActiveTable ==
    LET new == cmds' \ cmds
    IN  IF lastTable = "" THEN new = {}
        ELSE \E d \in new :
                 new = {d} /\ d.kind = "loadTable" /\ d.tableName = lastTable /\ d.pc = "run"

\* C28: ctrl+r dispatches a reconnect whatever the operations before left
\* of the connection; a Reconnect that succeeds leaves a live connection to
\* the database the handle records as current; and Update on its result
\* dispatches a load of the active table if and only if one is selected.
C28_ReconnectRestores ==
    /\ [](Cardinality(cmds) < MaxInFlight => ENABLED CtrlR)
    /\ [][ReconnectSucceeds => Live(conn') /\ conn'.on = conn'.database]_vars
    /\ [][ReconnectHandled => LoadsActiveTable]_vars

\* A reconnect succeeded on a handle that a switch whose ListTables failed
\* left on another database than the sidebar shows, with a table selected.
C28_Witness ==
    \E c \in cmds :
        /\ Reconnected(c) /\ c.pc = "done" /\ c.err = ""
        /\ conn.database # sidebar.activeDatabase
        /\ lastTable # ""

(***************************************************************************)
(* Properties of the pane's data.                                          *)
(***************************************************************************)
\* The rows of the pane that a result message delivered: all but the locally
\* inserted ones at the end.
Served(r) ==
    IF Len(r.rows) > r.insertedRows THEN SubSeq(r.rows, 1, Len(r.rows) - r.insertedRows)
    ELSE <<>>

\* The rows, table name and primary keys in the result message of command c
\* when it reports table data.
MessageData(c) ==
    IF c.kind = "executeQuery"
    THEN IF c.query.table = ""
         THEN [rows |-> QueryRows, tableName |-> "", pks |-> <<>>]
         ELSE [rows |-> TableRows(c.query.table), tableName |-> c.query.table,
               pks |-> IF c.sub = "" THEN GetPrimaryKeys(c.query.table) ELSE <<>>]
    ELSE [rows |-> TableRows(c.tableName), tableName |-> c.tableName,
          pks |-> GetPrimaryKeys(c.tableName)]

\* Update handles the result message of command c by showing its table data.
ShowsDataOf(c) ==
    /\ c.kind \in {"loadTable", "executeQuery", "refreshAfterDDL"}
    /\ c \notin cmds'
    /\ results'.rows = MessageData(c).rows
    /\ results'.tableName = MessageData(c).tableName
    /\ results'.primaryKeys = MessageData(c).pks

\* C24: the rows of the pane and its table context are replaced together, in
\* the handling of one result message: a step that leaves rows in the pane
\* either keeps the delivered rows, the table name and the primary keys as
\* they were, or sets all three from the one result message it handles.
C24_RowsAndContextTogether ==
    [][\/ results'.rows = <<>>
       \/ /\ Served(results') = Served(results)
          /\ results'.tableName = results.tableName
          /\ results'.primaryKeys = results.primaryKeys
       \/ \E c \in cmds : ShowsDataOf(c)]_vars

\* The pane shows v, with the context of v, after it showed another table
\* while the load of v was in flight.
C24_Witness ==
    /\ lastOp.op = "tableDataMsg" /\ lastOp.follows /\ lastOp.err = ""
    /\ lastOp.tableName = "v"
    /\ results.rows = TableRows("v") /\ results.tableName = "v" /\ results.primaryKeys = <<>>

(***************************************************************************)
(* Properties of the text functions.                                       *)
(***************************************************************************)
\* C21: formatting is idempotent: FormatSQL of a text FormatSQL returned
\* returns, and returns the same text.
C21_FormatIdempotent ==
    lastOp.op = "FormatSQL" =>
        ~FormatSQLPanics(editor.value) /\ FormatSQL(editor.value) = editor.value

\* x comes before y in the order that decides between overlapping spans: it
\* starts earlier, or at the same index and is longer.
Before(x, y) == x.Start < y.Start \/ (x.Start = y.Start /\ x.End > y.End)

\* The styled pieces of a highlighted text.
StyledPieces(pieces) == SelectSeq(pieces, LAMBDA p : p.style # "")

\* C22: of two overlapping candidate spans only the one that starts earlier
\* (of two that start together, the longer) can be rendered; the rendered
\* spans do not overlap and are in the order of their starts; no keyword,
\* number or operator is rendered inside a rendered comment; and the
\* highlighted text without its styles is the input.
C22_OverlapResolution ==
    lastOp.op = "HighlightSQL" =>
        LET src == editor.value
            tokens == Tokens(src)
            filtered == Filtered(src)
        IN  /\ \A i, j \in 1..Len(tokens) :
                   (Overlap(tokens[i], tokens[j]) /\ Before(tokens[i], tokens[j]))
                       => \A k \in 1..Len(filtered) : filtered[k] # tokens[j]
            /\ \A i, j \in 1..Len(filtered) : i < j => filtered[i].End <= filtered[j].Start
            /\ \A i, j \in 1..Len(filtered) :
                   (/\ filtered[i].Style = "CommentStyle"
                    /\ filtered[j].Style \in {"KeywordStyle", "NumberStyle", "OperatorStyle"})
                       => ~(filtered[i].Start <= filtered[j].Start
                            /\ filtered[j].End <= filtered[i].End)
            /\ tokens # <<>> =>
                   StyledPieces(editor.view) =
                       [k \in 1..Len(filtered) |->
                           Piece(Slice(src, filtered[k].Start, filtered[k].End),
                                 filtered[k].Style)]
            /\ Plain(editor.view) = src

\* A text was highlighted in which a comment holds two operators and a
\* keyword: the comment alone is rendered of them.
C22_Witness ==
    /\ lastOp.op = "HighlightSQL"
    /\ editor.value = <<"-", "-", "'", "o", "r">>
    /\ StyledPieces(editor.view) = <<Piece(editor.value, "CommentStyle")>>

(***************************************************************************)
(* Properties of the row keys staged from the Results pane.                *)
(***************************************************************************)
\* The column set of a staged row key is the primary-key list pks, and pks
\* is not empty.
FullKey(entry, pks) ==
    Len(pks) > 0 /\ DOMAIN entry.RowPKValues = Range(pks)

\* C31: every PendingEdit and PendingDelete that a step stages from the
\* Results pane carries a row key whose column set is exactly the
\* primary-key column list of the pane's table context, never empty and
\* never a strict subset, whatever result set the pane holds.
C31_FullRowKey ==
    [][/\ \A e \in StagedEdits(ct') \ StagedEdits(ct) : FullKey(e, results.primaryKeys)
       /\ \A d \in StagedDeletes(ct') \ StagedDeletes(ct) : FullKey(d, results.primaryKeys)]_vars

(***************************************************************************)
(* Properties of commits requested while a commit is in flight.            *)
(***************************************************************************)
\* C32: no staged mutation is executed in more than one committed
\* transaction.  db holds the transactions committed by the commands whose
\* result Update has not handled yet, and the ledger loses entries only when
\* such a result is handled: no statement is in two of these transactions.
C32_ExecutedOnce ==
    \A i, j \in 1..Len(db) :
        i # j => Range(db[i].tx) \cap Range(db[j].tx) = {}

\* The statements the transactions of command c executed and committed.
Executed(c) == UNION {Range(db[j].tx) : j \in {k \in 1..Len(db) : db[k].id = c.id}}

\* One of the statements GenerateSQL can make of the entry is among stmts.
ExecutedIn(made(_), stmts) ==
    \E ord \in ColOrders : [query |-> made(ord).text, args |-> made(ord).args] \in stmts

\* Update handles the result of commit command c in this step and clears the
\* ledger.
CommitHandled(c) ==
    c.pc = "done" /\ c.err = "" /\ c \notin cmds' /\ lastOp'.op = "commit ok"

\* C33: no staged mutation is dropped without being executed: when Update
\* clears the ledger on a successful commit result, every entry the ledger
\* holds at that moment is part of the transaction that command committed
\* (an insert without values makes no statement).
C33_ClearedOnlyIfExecuted ==
    [][\A c \in CommitCmds :
          CommitHandled(c) =>
              /\ \A i \in 1..Len(ct.Edits) :
                     LET made(ord) == UpdateSQL(ct.Edits[i], ord)
                     IN  ExecutedIn(made, Executed(c))
              /\ \A i \in 1..Len(ct.Deletes) :
                     LET made(ord) == DeleteSQL(ct.Deletes[i], ord)
                     IN  ExecutedIn(made, Executed(c))
              /\ \A i \in 1..Len(ct.Inserts) :
                     LET made(ord) == InsertSQL(ct.Inserts[i], ord)
                     IN  DOMAIN ct.Inserts[i].Values # {} => ExecutedIn(made, Executed(c))]_vars

(***************************************************************************)
(* Properties of the handle's database and what the panes show of it.      *)
(***************************************************************************)
\* Update handles the tableDataMsg of load command c in this step and shows
\* its rows.
LoadShown(c) == c.kind = "loadTable" /\ c.pc = "done" /\ c.err = "" /\ c \notin cmds'

\* C34: after a successful database-switch result has been handled, the
\* Results pane never shows rows loaded from the previously active
\* database.  Selecting a table records it in lastTable and only Update on
\* a successful switch result resets lastTable, so a load whose rows Update
\* shows while lastTable is empty was dispatched before that result was
\* handled: its rows were read from the database that is active now.
C34_NoRowsOfPreviousDatabase ==
    [][\A c \in cmds :
          LoadShown(c) /\ lastTable = "" => c.servedBy = sidebar.activeDatabase]_vars

\* C35: whenever no database operation is in flight, the database the
\* sidebar shows as active is the database the handle is connected to (a
\* handle whose connection is closed is connected to none).
C35_SidebarShowsConnected ==
    cmds = {} /\ Live(conn) => sidebar.activeDatabase = conn.on

(***************************************************************************)
(* Properties of the modes and of the focus.                               *)
(***************************************************************************)
\* C37: the Results pane is in at most one modal sub-mode at a time: at most
\* one of editing, searching and previewing is set, and previewEditing is
\* set only while previewing is.
C37_OneSubMode ==
    /\ ~(results.editing /\ results.searching)
    /\ ~(results.editing /\ results.previewing)
    /\ ~(results.searching /\ results.previewing)
    /\ results.previewEditing => results.previewing

\* A cell of a loaded table is being edited inside its preview.
C37_Witness ==
    /\ results.previewing /\ results.previewEditing
    /\ Len(results.rows) > 0 /\ results.previewValue # ""

\* C38: in every state of the coordinator exactly one of the three panes
\* has its focused flag set, and it is the pane recorded as the active
\* pane: the pane Update forwards a key to is the one pane that takes it.
C38_OneFocusedPane ==
    /\ activePane \in {SidebarPane, EditorPane, ResultsPane}
    /\ sidebar.focused <=> activePane = SidebarPane
    /\ editor.focused <=> activePane = EditorPane
    /\ results.focused <=> activePane = ResultsPane

\* The focus has gone round to the Results pane and a cell is being edited
\* there.
C38_Witness ==
    /\ activePane = ResultsPane /\ results.focused /\ results.editing
    /\ ~sidebar.focused /\ ~editor.focused

(***************************************************************************)
(* Properties of the formatter's lexer.                                    *)
(***************************************************************************)
\* C39: the lexer of FormatSQL ends on every text and never reads or slices
\* past the end of it, an unterminated string literal and a text that ends
\* in a backslash included: no ctrl+e ends the process with a slice out of
\* range on the text the editor holds.
C39_LexerInBounds == ~(panicked /\ FormatSQLPanics(editor.value))

====
